---- MODULE Spec2Model ----
(***************************************************************************)
(* Model of the image acquisition pipeline of agri_risks:                  *)
(*   src/crawler/ImageCrawler.py      process_risk_item, download_image,   *)
(*                                    get_google_image_urls                *)
(*   src/crawler/yandex_crawler.py    get_yandex_image_urls,               *)
(*                                    get_images_with_fallback             *)
(*   src/crawler/convert_webp_to_jpg.py  convert_webp_to_jpg,              *)
(*                   rename_file_according_to_pattern, process_directory   *)
(*   src/crawler/convert_webp.py      convert_webp_to_jpg, fix_filename,   *)
(*                                    process_directory                    *)
(*   src/dataset-labeling/DatasetPreparationUtils.py  collect_classes,     *)
(*                   split_dataset, copy_images_to_dataset                 *)
(*                                                                         *)
(* Text is modelled character by character: a string is a sequence of      *)
(* one-character strings.  A Cyrillic letter is written by its code point  *)
(* ("U+0420" is the capital ER), because the module is ASCII.              *)
(***************************************************************************)
EXTENDS Integers, Sequences, FiniteSets, TLC

VARIABLES
    item,            \* the CSV row (a function from column names to text)
    culture_ru,      \* crop context of the batch
    culture_en,
    risk_type,
    fs,              \* the risk directory: file name -> content
    made,            \* the directories that exist
    pc,              \* position inside process_risk_item
    search_engine,   \* arguments of the current invocation
    max_images,
    risk_name_en,    \* locals of the current invocation
    risk_dir,
    existing,        \* len(existing_images)
    image_urls,
    idx,             \* the loop index i of enumerate(image_urls)
    downloads_count,
    requests,        \* history: the search requests of the current invocation
    attempts,        \* history: number of download_image calls of the invocation
    sleeps,          \* history: number of time.sleep calls of the invocation
    used,            \* history: number of download_image calls of all invocations
    plentiful,       \* history: every result page read so far held MaxFound URLs
    valid_run,       \* history: every download_image call so far got a valid image
    jpeg_run,        \* history: every download_image call so far got image/jpeg
    fs0,             \* history: the directory when the invocation started
    listed,          \* history: risk_dir.glob('*') gave the directory's entries
    listings,        \* history: so it did in every invocation so far
    outcome,         \* history: how the invocation ended
    call,            \* one download_image call: its inputs and its results
    triples,         \* identity derivation: two (risk_type, crop, name) inputs
    seeds,           \* identity derivation: the seeds derived from them
    probe,           \* one call of a pure function: its arguments and its result
    batch            \* process_csv_file: the rows, the loop position, the history

crawlVars == << item, culture_ru, culture_en, risk_type, fs, made, pc,
                search_engine, max_images, risk_name_en, risk_dir, existing,
                image_urls, idx, downloads_count, requests, attempts, sleeps,
                used, plentiful, valid_run, jpeg_run, fs0, listed, listings, outcome >>

fetchVars == << call >>

seedVars == << triples, seeds >>

probeVars == << probe >>

batchVars == << batch >>

vars == << crawlVars, fetchVars, seedVars, probeVars, batchVars >>

(***************************************************************************)
(* Bounds of the model.                                                    *)
(***************************************************************************)
MaxCap == 3      \* max_images ranges over 1..MaxCap
MaxAttempts == 3 \* download_image calls, over all invocations, on the directory
MaxFound == 5    \* a result page holds 0..MaxFound image URLs
MaxNameLen == 2  \* length of the risk names of the identity derivation

(***************************************************************************)
(* Program constants.                                                      *)
(***************************************************************************)
MinImageBytes == 1000

(***************************************************************************)
(* Text helpers: str.lower, str.replace(' ', '_'), str.strip, re.sub.      *)
(***************************************************************************)
UpperLetters ==
    << "A", "B", "C", "D", "E", "F", "G", "H", "I", "J", "K", "L", "M",
       "N", "O", "P", "Q", "R", "S", "T", "U", "V", "W", "X", "Y", "Z" >>

LowerLetters ==
    << "a", "b", "c", "d", "e", "f", "g", "h", "i", "j", "k", "l", "m",
       "n", "o", "p", "q", "r", "s", "t", "u", "v", "w", "x", "y", "z" >>

LowerMap ==
    [c \in { UpperLetters[k] : k \in 1..Len(UpperLetters) } |->
       LowerLetters[CHOOSE k \in 1..Len(UpperLetters) : UpperLetters[k] = c]]
    @@ ("U+0420" :> "U+0440") @@ ("U+0411" :> "U+0431")

LowerChar(c) == IF c \in DOMAIN LowerMap THEN LowerMap[c] ELSE c

Lower(s) == [k \in 1..Len(s) |-> LowerChar(s[k])]

ReplaceSpaces(s) == [k \in 1..Len(s) |-> IF s[k] = " " THEN "_" ELSE s[k]]

Whitespace == {" ", "\t", "\n"}

Punctuation == {"-", "(", ")", ",", ".", "'"}

RECURSIVE LStrip(_)
LStrip(s) ==
    IF s # << >> /\ Head(s) \in Whitespace THEN LStrip(Tail(s)) ELSE s

RECURSIVE RStrip(_)
RStrip(s) ==
    IF s # << >> /\ s[Len(s)] \in Whitespace
    THEN RStrip(SubSeq(s, 1, Len(s) - 1))
    ELSE s

\* a strip that removes nothing
Strip_none(s) == s

Strip(s) == RStrip(LStrip(s))

IsWordOrSpace(c) == c \notin Punctuation

RemoveNonWord(s) == SelectSeq(s, IsWordOrSpace)

Get(row, column) == IF column \in DOMAIN row THEN row[column] ELSE << >>

(***************************************************************************)
(* Words of the program's text.                                            *)
(***************************************************************************)
Diseases == << "d", "i", "s", "e", "a", "s", "e", "s" >>
Pests == << "p", "e", "s", "t", "s" >>
Weeds == << "w", "e", "e", "d", "s" >>
Unknown == << "u", "n", "k", "n", "o", "w", "n" >>
Cereals == << "c", "e", "r", "e", "a", "l", "s" >>
\* "пшеница"
Pshenitsa == << "U+043F", "U+0448", "U+0435", "U+043D", "U+0438", "U+0446", "U+0430" >>
\* "Ржавчина"
Rzhavchina_ru == << "U+0420", "U+0436", "U+0430", "U+0432", "U+0447", "U+0438",
                    "U+043D", "U+0430" >>
\* "rzhavchina", the Latin transliteration of "Ржавчина"
Rzhavchina_lat == << "r", "z", "h", "a", "v", "c", "h", "i", "n", "a" >>
BrownRust == << "B", "r", "o", "w", "n", " ", "R", "u", "s", "t" >>
\* the words of the query templates: "болезнь", "вредитель", "фото",
\* "высокое", "качество", "макро"
WordBolezn == << "ru:bolezn" >>
WordVreditel == << "ru:vreditel" >>
WordFoto == << "ru:foto" >>
WordVysokoe == << "ru:vysokoe" >>
WordKachestvo == << "ru:kachestvo" >>
WordMakro == << "ru:makro" >>

(***************************************************************************)
(* Identity: the GUID seed and the file naming scheme.                     *)
(***************************************************************************)
JoinUnderscore(a, b, c) == a \o << "_" >> \o b \o << "_" >> \o c

\* uuid.uuid5(uuid.NAMESPACE_DNS, seed): a hash of the seed, taken to be free
\* of collisions; a GUID read from the row is kept as it is.
Uuid5(seed) == [kind |-> "uuid5", text |-> seed]

GivenGuid(text) == [kind |-> "given", text |-> text]

\* a seed that leaves the crop out
GuidSeed_nocrop(rt, crop, name) == Lower(rt \o << "_" >> \o name)

\* ImageCrawler.py: guid_seed = f"{risk_type}_{culture_en}_{risk_name_en}".lower()
GuidSeed(rt, crop, name) == Lower(JoinUnderscore(rt, crop, name))

\* the GUID of process_risk_item: the row's 'guid' column when it has one
ItemGuid(row, rt, crop, name_en) ==
    IF "guid" \in DOMAIN row THEN GivenGuid(row["guid"])
    ELSE Uuid5(GuidSeed(rt, crop, name_en))

\* risk_dir = DOWNLOAD_DIR / risk_type / culture_en / risk_name_en.replace(' ', '_').lower()
RiskDir(rt, crop, name_en) == << rt, crop, Lower(ReplaceSpaces(name_en)) >>

\* English name of the risk: the row's, or the cleaned local name
RiskNameEn(name_ru, name_en) ==
    IF name_en = << >> THEN Lower(ReplaceSpaces(RemoveNonWord(name_ru)))
    ELSE name_en

\* convert_webp_to_jpg.py, rename_file_according_to_pattern: the seed taken
\* from the directory segments of a path
RiskTypes == { Diseases, Pests, Weeds }

RECURSIVE FirstRiskIndex(_, _)
FirstRiskIndex(parts, k) ==
    IF k > Len(parts) THEN 0
    ELSE IF Lower(parts[k]) \in RiskTypes THEN k
    ELSE FirstRiskIndex(parts, k + 1)

RenameSeed(path_parts) ==
    LET k == FirstRiskIndex(path_parts, 1)
        rt == IF k = 0 THEN Unknown ELSE path_parts[k]
        culture == IF k # 0 /\ k + 1 <= Len(path_parts)
                   THEN Lower(path_parts[k + 1]) ELSE Unknown
        disease_name == IF k # 0 /\ k + 2 <= Len(path_parts)
                        THEN Lower(path_parts[k + 2]) ELSE Unknown
    IN  Lower(JoinUnderscore(rt, culture, disease_name))

\* a text of the program is the sequence of its characters; a string of the
\* model read as such a text, and a text written as one string
Chars(string) == [k \in 1..Len(string) |-> SubSeq(string, k, k)]

RECURSIVE Flat(_)
Flat(text) == IF text = << >> THEN "" ELSE Head(text) \o Flat(Tail(text))

\* str(uuid.uuid5(uuid.NAMESPACE_DNS, seed)) inside a text: one element that
\* stands for the 36 characters (lower-case hexadecimal digits and dashes) of
\* the UUID of the seed
Uuid5Text(seed) == << "uuid5:" \o Flat(seed) >>

IsUuidElement(c) == Len(c) > 6 /\ SubSeq(c, 1, 6) = "uuid5:"

\* the GUID of a file name as the text the name holds
GuidText(guid) == IF guid.kind = "uuid5" THEN Uuid5Text(guid.text) ELSE guid.text

Digits == { "0", "1", "2", "3", "4", "5", "6", "7", "8", "9" }

HexDigits == Digits \cup { "a", "b", "c", "d", "e", "f" }

\* guid_pattern = r'[0-9a-f]{8}-[0-9a-f]{4}-[0-9a-f]{4}-[0-9a-f]{4}-[0-9a-f]{12}'
\* matches at position k of a text
GuidAt(text, k) ==
    \/ IsUuidElement(text[k])
    \/ /\ k + 35 <= Len(text)
       /\ \A j \in 1..36 :
            IF j \in { 9, 14, 19, 24 } THEN text[k + j - 1] = "-"
            ELSE text[k + j - 1] \in HexDigits

\* re.search(guid_pattern, text).group(0): the leftmost match, << >> when
\* there is none
SearchGuid(text) ==
    IF \E k \in 1..Len(text) : GuidAt(text, k)
    THEN LET k == CHOOSE k \in 1..Len(text) :
                    GuidAt(text, k) /\ \A j \in 1..(k - 1) : ~GuidAt(text, j)
         IN  IF IsUuidElement(text[k]) THEN << text[k] >> ELSE SubSeq(text, k, k + 35)
    ELSE << >>

\* os.sep.join(path_parts)
RECURSIVE JoinPath(_)
JoinPath(path_parts) ==
    IF path_parts = << >> THEN << >>
    ELSE IF Len(path_parts) = 1 THEN path_parts[1]
    ELSE path_parts[1] \o << "/" >> \o JoinPath(Tail(path_parts))

\* rename_file_according_to_pattern, lines 81-96: the GUID found in the file
\* path, or in the directory, and only when there is none the UUID of the seed
RenameGuid(path_parts, filename) ==
    LET directory == JoinPath(path_parts)
        file_path == directory \o << "/" >> \o filename
        guid_match == SearchGuid(file_path)
        dir_guid_match == SearchGuid(directory)
    IN  IF guid_match # << >> THEN guid_match
        ELSE IF dir_guid_match # << >> THEN dir_guid_match
        ELSE Uuid5Text(RenameSeed(path_parts))

\* str.lower on the file extensions of the model
ExtLower(ext) ==
    IF ext = ".JPG" THEN ".jpg"
    ELSE IF ext = ".PNG" THEN ".png"
    ELSE IF ext \in { ".WEBP", ".WebP" } THEN ".webp"
    ELSE ext

\* file_ext = os.path.splitext(url)[1], '.jpg' unless file_ext.lower() is a
\* known one
KnownUrlExts == { ".jpg", ".jpeg", ".png", ".webp" }

FileExt(url_ext) ==
    IF url_ext = "" \/ ExtLower(url_ext) \notin KnownUrlExts THEN ".jpg" ELSE url_ext

\* file_number = i + len(existing_images) + 1
FileNumber(i, n_existing) == i + n_existing + 1

\* save_path = risk_dir / f"{risk_type}_{culture_en.lower()}_{guid}_{file_number:02d}{file_ext}"
SavePath(rt, crop, guid, number, ext) ==
    [risk_type |-> rt, culture |-> Lower(crop), guid |-> guid,
     number |-> number, ext |-> ext]

(***************************************************************************)
(* Fetcher: download_image.                                                *)
(***************************************************************************)
\* a Content-Type header "type/subtype" is the pair of its two parts; the
\* header is missing when both are empty
ContentType(type, subtype) == [type |-> type, subtype |-> subtype]

\* a gate that lets every content type through
IsImageType_any(content_type) == TRUE

\* content_type.startswith('image/')
IsImageType(content_type) == content_type.type = "image"

\* an extension that is 'jpg' whatever the content type
ExtensionFor_jpg(content_type) == "jpg"

\* the extension chosen from the content type, 'jpg' by default
ExtensionFor(content_type) ==
    IF content_type = ContentType("image", "jpeg") THEN "jpg"
    ELSE IF content_type = ContentType("image", "png") THEN "png"
    ELSE IF content_type = ContentType("image", "webp") THEN "webp"
    ELSE IF content_type = ContentType("image", "gif") THEN "gif"
    ELSE "jpg"

\* if not str(save_path).lower().endswith('.' + extension): replace the extension
ResolvePath(save_path, extension) ==
    IF ExtLower(save_path.ext) = "." \o extension THEN save_path
    ELSE [save_path EXCEPT !.ext = "." \o extension]

\* len(image_data) < 1000
TooSmall(size) == size < MinImageBytes

EmptyFile == [state |-> "empty", data |-> << >>]
PartialFile(data) == [state |-> "partial", data |-> data]
FullFile(data) == [state |-> "full", data |-> data]

\* open(path, 'wb') followed by what is written before the file is closed
WriteFile(files, path, content) ==
    [p \in DOMAIN files \cup { path } |-> IF p = path THEN content ELSE files[p]]

Failed(files, path) == [fs |-> files, ok |-> FALSE, path |-> path]

\* download_image(url, save_path): the directory after the call, the value
\* returned, and the path the call resolved
DownloadImage(files, save_path, resp, data) ==
    IF resp.net # "ok" THEN Failed(files, save_path)
    ELSE IF resp.status # 200 THEN Failed(files, save_path)
    ELSE IF ~IsImageType(resp.ctype) THEN Failed(files, save_path)
    ELSE LET path == ResolvePath(save_path, ExtensionFor(resp.ctype))
             opened == WriteFile(files, path, EmptyFile)
         IN  IF resp.io = "open" THEN Failed(files, path)
             ELSE IF resp.io = "read" THEN Failed(opened, path)
             ELSE IF TooSmall(resp.size) THEN Failed(opened, path)
             ELSE IF resp.io = "write"
                  THEN Failed(WriteFile(files, path, PartialFile(data)), path)
             ELSE [fs |-> WriteFile(files, path, FullFile(data)),
                   ok |-> TRUE, path |-> path]

(***************************************************************************)
(* Source adapters and the query builder.                                  *)
(***************************************************************************)
\* search_engine.lower(), on the engine names of the model
EngineLower(engine) ==
    IF engine = "Yandex" THEN "yandex"
    ELSE IF engine = "Google" THEN "google"
    ELSE engine

\* a query builder with the disease template only
CreateSearchQuery_onetemplate(risk_name, culture, rt, engine) ==
    IF EngineLower(engine) = "yandex"
    THEN << risk_name, WordBolezn, culture, WordFoto, WordVysokoe, WordKachestvo >>
    ELSE << risk_name, WordBolezn, culture, WordFoto >>

\* create_search_query: the query as a sequence of words
CreateSearchQuery(risk_name, culture, rt, engine) ==
    IF EngineLower(engine) = "yandex"
    THEN IF rt = Diseases
         THEN << risk_name, WordBolezn, culture, WordFoto, WordVysokoe, WordKachestvo >>
         ELSE << risk_name, WordVreditel, culture, WordFoto, WordMakro >>
    ELSE IF rt = Diseases
         THEN << risk_name, WordBolezn, culture, WordFoto >>
         ELSE << risk_name, WordVreditel, culture, WordFoto >>

\* an alternative query that is the primary one again
AltQuery_primary(risk_name, culture) == << risk_name, WordBolezn, culture, WordFoto >>

\* alt_query = f"{risk_name_ru} {culture_ru} фото"
AltQuery(risk_name, culture) == << risk_name, culture, WordFoto >>

\* what re.findall gives on a result page: the page's URLs in page order
\* (for Yandex, each after url.replace("\\", ""))
FoundUrls(source, page) == [k \in 1..page.found |-> [src |-> source, n |-> k]]

\* for url in found_urls: append; if len(image_urls) >= max_images: break
RECURSIVE CollectUrls(_, _, _)
CollectUrls(found_urls, collected, max) ==
    IF found_urls = << >> THEN collected
    ELSE LET next == Append(collected, Head(found_urls))
         IN  IF Len(next) >= max THEN next
             ELSE CollectUrls(Tail(found_urls), next, max)

\* get_google_image_urls / get_yandex_image_urls: [] when the request fails
GetGoogleImageUrls(page, max) ==
    IF ~page.ok THEN << >> ELSE CollectUrls(FoundUrls("google", page), << >>, max)

GetYandexImageUrls(page, max) ==
    IF ~page.ok THEN << >> ELSE CollectUrls(FoundUrls("yandex", page), << >>, max)

\* a merge that puts the second source after the first
Interleave_concat(yandex_urls, google_urls, i) == yandex_urls \o google_urls

\* engine 'both': one URL of each source in turn, cut to max_images
RECURSIVE Interleave(_, _, _)
Interleave(yandex_urls, google_urls, i) ==
    IF i > Len(yandex_urls) /\ i > Len(google_urls) THEN << >>
    ELSE (IF i <= Len(yandex_urls) THEN << yandex_urls[i] >> ELSE << >>)
         \o (IF i <= Len(google_urls) THEN << google_urls[i] >> ELSE << >>)
         \o Interleave(yandex_urls, google_urls, i + 1)

Truncate(s, n) == SubSeq(s, 1, IF Len(s) < n THEN Len(s) ELSE n)

\* each source is asked for max_images // 2 URLs
HalfCap(max) == max \div 2

BothUrls(page_y, page_g, max) ==
    Truncate(Interleave(GetYandexImageUrls(page_y, HalfCap(max)),
                        GetGoogleImageUrls(page_g, HalfCap(max)), 1), max)

\* the primary search of process_risk_item
PrimaryUrls(engine, page_y, page_g, max) ==
    IF engine = "google" THEN GetGoogleImageUrls(page_g, max)
    ELSE IF engine = "yandex" THEN GetYandexImageUrls(page_y, max)
    ELSE IF engine = "both" THEN BothUrls(page_y, page_g, max)
    ELSE GetGoogleImageUrls(page_g, max)

\* the search with the alternative query
AltUrls(engine, page_y, page_g, max) ==
    IF engine = "yandex" THEN GetYandexImageUrls(page_y, max)
    ELSE GetGoogleImageUrls(page_g, max)

\* if len(existing_images) >= max_images: return
InventoryFull(n_existing, max) == n_existing >= max

\* if len(existing_images) + downloads_count >= max_images: break
CapReached(n_existing, n_downloaded, max) == n_existing + n_downloaded >= max

(***************************************************************************)
(* Inputs: rows, result pages, URL extensions, responses.                  *)
(***************************************************************************)
\* "Бурая ржавчина"
BurayaRzhavchina_ru ==
    << "U+0411", "U+0443", "U+0440", "U+0430", "U+044F", " " >> \o Lower(Rzhavchina_ru)

\* a row of a table with the columns name, description (as in the test table)
ItemRzhavchina == [name |-> Rzhavchina_ru]
\* a row that carries an English name of two words
ItemBrownRust == [name |-> BurayaRzhavchina_ru, english_name |-> BrownRust]
\* a row that carries a 'guid' column
ItemWithGuid == [name |-> Rzhavchina_ru, english_name |-> << "r", "u", "s", "t" >>,
                 guid |-> << "g", "1" >>]
\* a row whose name is blank
ItemNoName == [name |-> << " " >>]

\* a row without the column 'name'
ItemNoNameColumn == [english_name |-> << "r", "u", "s", "t" >>]

Items == { ItemRzhavchina, ItemBrownRust, ItemWithGuid, ItemNoName, ItemNoNameColumn }

Engines == { "google", "yandex", "both" }

Caps == 1..MaxCap

\* a result page: the request failed, or it holds `found` image URLs
Pages == { [ok |-> FALSE, found |-> 0] } \cup { [ok |-> TRUE, found |-> n] : n \in 0..MaxFound }

NoPage == [ok |-> FALSE, found |-> 0]

Plenty(page) == page.ok /\ page.found = MaxFound

\* the extensions of the candidate URLs of a run (the adapters' patterns match
\* lower-case extensions only)
UrlExts == { ".jpg", ".jpeg", ".png", ".webp", ".gif", "" }

ContentTypes ==
    { ContentType("image", "jpeg"), ContentType("image", "png"),
      ContentType("image", "webp"), ContentType("image", "gif"),
      ContentType("image", "bmp"), ContentType("text", "html"),
      ContentType("application", "json"), ContentType("", "") }

Sizes == { 500, 999, 1000 }

NetError == [net |-> "error", status |-> 0, ctype |-> ContentType("", ""), size |-> 0,
             io |-> "none"]

\* what a download meets: the request fails (HTTPError, URLError), or a response
\* with a status, a content type and a payload size, and the local I/O fault,
\* if any, met while storing it
Responses ==
    { NetError }
    \cup { [net |-> "ok", status |-> 404, ctype |-> ContentType("text", "html"),
              size |-> 500, io |-> "none"] }
    \cup { [net |-> "ok", status |-> 200, ctype |-> c, size |-> z, io |-> f] :
             c \in ContentTypes, z \in Sizes, f \in { "none", "open", "read", "write" } }

Response(type, subtype, size, fault) ==
    [net |-> "ok", status |-> 200, ctype |-> ContentType(type, subtype), size |-> size,
     io |-> fault]

\* the responses the orchestrator's runs are explored with: a failed request,
\* a page that is no image, two valid images, an undersized image, and an
\* image met by a fault when the file is opened or the payload is read
CrawlResponses ==
    { NetError,
      Response("text", "html", 1000, "none"),
      Response("image", "jpeg", 1000, "none"),
      Response("image", "png", 1000, "none"),
      Response("image", "jpeg", 500, "none"),
      Response("image", "jpeg", 1000, "open"),
      Response("image", "jpeg", 1000, "read") }

ValidImage(resp) ==
    /\ resp.net = "ok" /\ resp.status = 200 /\ resp.ctype.type = "image"
    /\ resp.size >= MinImageBytes /\ resp.io = "none"

NoPath == SavePath(<< >>, << >>, GivenGuid(<< >>), 0, "")

NoCall == [done |-> FALSE, files |-> << >>, save_path |-> NoPath, resp |-> NetError,
           data |-> << >>, ok |-> FALSE, path |-> NoPath, after |-> << >>]

NoDir == << << >>, << >>, << >> >>

NoProbe == [fn |-> "none", done |-> FALSE]

NoBatch == [rows |-> << >>, done |-> FALSE]

(***************************************************************************)
(* Acquisition orchestrator: process_risk_item, step by step.              *)
(***************************************************************************)
InitCrawl ==
    /\ culture_ru = Pshenitsa
    /\ culture_en = Cereals
    /\ risk_type = Diseases
    /\ fs = << >>
    /\ made = { }
    /\ pc = "idle"
    /\ search_engine = "google"
    /\ max_images = 1
    /\ risk_name_en = << >>
    /\ risk_dir = NoDir
    /\ existing = 0
    /\ image_urls = << >>
    /\ idx = 0
    /\ downloads_count = 0
    /\ requests = << >>
    /\ attempts = 0
    /\ sleeps = 0
    /\ used = 0
    /\ plentiful = TRUE
    /\ valid_run = TRUE
    /\ jpeg_run = TRUE
    /\ fs0 = << >>
    /\ listed = TRUE
    /\ listings = TRUE
    /\ outcome = "none"

Init ==
    /\ item \in Items
    /\ InitCrawl
    /\ call = NoCall
    /\ triples = << >>
    /\ seeds = << >>
    /\ probe = NoProbe
    /\ batch = NoBatch

\* the entry of process_risk_item up to the inventory check
Start ==
    /\ pc = "idle"
    /\ \E engine \in Engines, cap \in Caps, mkdir_ok \in BOOLEAN, glob_ok \in BOOLEAN :
         LET risk_name_ru == Strip(Get(item, "name"))
             name_en == RiskNameEn(risk_name_ru, Strip(Get(item, "english_name")))
             dir == RiskDir(risk_type, culture_en, name_en)
             \* existing_images: the entries of the directory, [] when
             \* listing it fails
             n == IF glob_ok THEN Cardinality(DOMAIN fs) ELSE 0
         IN  /\ search_engine' = engine
             /\ max_images' = cap
             /\ fs0' = fs
             /\ image_urls' = << >>
             /\ idx' = 0
             /\ downloads_count' = 0
             /\ requests' = << >>
             /\ attempts' = 0
             /\ sleeps' = 0
             /\ plentiful' = TRUE
             /\ valid_run' = TRUE
             /\ jpeg_run' = TRUE
             /\ IF risk_name_ru = << >>
                THEN /\ outcome' = "skipped"
                     /\ pc' = "done"
                     /\ risk_name_en' = << >>
                     /\ risk_dir' = NoDir
                     /\ existing' = 0
                     /\ listed' = TRUE
                     /\ UNCHANGED << made, listings >>
                ELSE IF ~mkdir_ok /\ dir \notin made
                THEN /\ outcome' = "mkdir_failed"
                     /\ pc' = "done"
                     /\ risk_name_en' = name_en
                     /\ risk_dir' = NoDir
                     /\ existing' = 0
                     /\ listed' = TRUE
                     /\ UNCHANGED << made, listings >>
                ELSE /\ risk_name_en' = name_en
                     /\ risk_dir' = dir
                     /\ made' = made \cup { dir }
                     /\ existing' = n
                     /\ listed' = (glob_ok \/ fs = << >>)
                     /\ listings' = (listings /\ listed')
                     /\ IF InventoryFull(n, cap)
                        THEN outcome' = "satisfied" /\ pc' = "done"
                        ELSE outcome' = "none" /\ pc' = "search"
    /\ UNCHANGED << item, culture_ru, culture_en, risk_type, fs, used, fetchVars, seedVars, probeVars, batchVars >>

\* the search with the primary query
Search ==
    /\ pc = "search"
    /\ \E page_y \in Pages, page_g \in Pages :
         LET name == Strip(Get(item, "name"))
             query == CreateSearchQuery(name, culture_ru, risk_type, search_engine)
             urls == PrimaryUrls(search_engine, page_y, page_g, max_images)
             reqs == (IF search_engine \in { "yandex", "both" }
                      THEN << [engine |-> "yandex", query |-> query] >>
                      ELSE << >>)
                     \o (IF search_engine # "yandex"
                         THEN << [engine |-> "google", query |-> query] >>
                         ELSE << >>)
         IN  /\ (search_engine = "google" => page_y = NoPage)
             /\ (search_engine = "yandex" => page_g = NoPage)
             \* the loop calls download_image at most once per candidate:
             \* the pages explored are those the model's bound has room for
             /\ used + Len(urls) <= MaxAttempts
             /\ image_urls' = urls
             /\ requests' = requests \o reqs
             /\ plentiful' = /\ plentiful
                             /\ (search_engine # "google" => Plenty(page_y))
                             /\ (search_engine # "yandex" => Plenty(page_g))
             /\ pc' = IF urls = << >> THEN "alt" ELSE "loop"
    /\ UNCHANGED << listings, used, item, culture_ru, culture_en, risk_type, fs, made,
                    search_engine, max_images, risk_name_en, risk_dir, existing,
                    idx, downloads_count, attempts, sleeps, valid_run, jpeg_run,
                    fs0, listed, outcome, fetchVars, seedVars, probeVars, batchVars >>

\* the search with the alternative query, made when the primary one found nothing
AltSearch ==
    /\ pc = "alt"
    /\ \E page \in Pages :
         LET name == Strip(Get(item, "name"))
             query == AltQuery(name, culture_ru)
             source == IF search_engine = "yandex" THEN "yandex" ELSE "google"
             urls == AltUrls(search_engine, page, page, max_images)
         IN  /\ used + Len(urls) <= MaxAttempts
             /\ image_urls' = urls
             /\ requests' = Append(requests, [engine |-> source, query |-> query])
             /\ plentiful' = (plentiful /\ Plenty(page))
             /\ IF urls = << >>
                THEN outcome' = "no_urls" /\ pc' = "done"
                ELSE outcome' = outcome /\ pc' = "loop"
    /\ UNCHANGED << listings, used, item, culture_ru, culture_en, risk_type, fs, made,
                    search_engine, max_images, risk_name_en, risk_dir, existing,
                    idx, downloads_count, attempts, sleeps, valid_run, jpeg_run,
                    fs0, listed, fetchVars, seedVars, probeVars, batchVars >>

\* the path the loop builds for candidate i with the given URL extension
CandidatePath(url_ext) ==
    SavePath(risk_type, culture_en,
             ItemGuid(item, risk_type, culture_en, risk_name_en),
             FileNumber(idx, existing), FileExt(url_ext))

\* a loop that is over before its first candidate
LoopEnds_atonce == TRUE

\* a loop that a failed download ends
LoopEnds_onfailure ==
    \/ idx >= Len(image_urls)
    \/ CapReached(existing, downloads_count, max_images)
    \/ attempts > downloads_count

\* the loop is over: no candidate is left, or the break at the cap
LoopEnds == idx >= Len(image_urls) \/ CapReached(existing, downloads_count, max_images)

\* one iteration that finds the file already there: continue
Skip ==
    /\ pc = "loop"
    /\ ~LoopEnds
    /\ \E url_ext \in UrlExts :
         /\ CandidatePath(url_ext) \in DOMAIN fs
         /\ idx' = idx + 1
    /\ UNCHANGED << listings, used, item, culture_ru, culture_en, risk_type, fs, made, pc,
                    search_engine, max_images, risk_name_en, risk_dir, existing,
                    image_urls, downloads_count, requests, attempts, sleeps,
                    plentiful, valid_run, jpeg_run, fs0, listed, outcome, fetchVars, seedVars, probeVars, batchVars >>

\* one iteration that calls download_image
Download ==
    /\ pc = "loop"
    /\ ~LoopEnds
    /\ \E url_ext \in UrlExts, resp \in CrawlResponses :
         LET save_path == CandidatePath(url_ext)
             res == DownloadImage(fs, save_path, resp, << used + 1 >>)
         IN  /\ save_path \notin DOMAIN fs
             /\ fs' = res.fs
             /\ downloads_count' = IF res.ok THEN downloads_count + 1 ELSE downloads_count
             /\ attempts' = attempts + 1
             /\ used' = used + 1
             /\ valid_run' = (valid_run /\ ValidImage(resp))
             /\ jpeg_run' = (jpeg_run /\ ValidImage(resp) /\ resp.ctype = ContentType("image", "jpeg"))
             /\ pc' = "sleep"
    /\ UNCHANGED << listings, item, culture_ru, culture_en, risk_type, made,
                    search_engine, max_images, risk_name_en, risk_dir, existing,
                    image_urls, idx, requests, sleeps, plentiful, fs0, listed, outcome,
                    fetchVars, seedVars, probeVars, batchVars >>

\* the next candidate without the pause
Sleep_nodelay ==
    /\ pc = "sleep"
    /\ idx' = idx + 1
    /\ pc' = "loop"
    /\ UNCHANGED << listings, used, item, culture_ru, culture_en, risk_type, fs, made,
                    search_engine, max_images, risk_name_en, risk_dir, existing,
                    image_urls, downloads_count, requests, attempts, sleeps, plentiful,
                    valid_run, jpeg_run, fs0, listed, outcome, fetchVars, seedVars,
                    probeVars, batchVars >>

\* time.sleep(random.uniform(1.0, 3.0)) and the next candidate
Sleep ==
    /\ pc = "sleep"
    /\ sleeps' = sleeps + 1
    /\ idx' = idx + 1
    /\ pc' = "loop"
    /\ UNCHANGED << listings, used, item, culture_ru, culture_en, risk_type, fs, made,
                    search_engine, max_images, risk_name_en, risk_dir, existing,
                    image_urls, downloads_count, requests, attempts, plentiful,
                    valid_run, jpeg_run, fs0, listed, outcome, fetchVars, seedVars, probeVars, batchVars >>

\* the loop ends: the candidates are used up, or the cap is reached
Finish ==
    /\ pc = "loop"
    /\ LoopEnds
    /\ outcome' = "finished"
    /\ pc' = "done"
    /\ UNCHANGED << listings, used, item, culture_ru, culture_en, risk_type, fs, made,
                    search_engine, max_images, risk_name_en, risk_dir, existing,
                    image_urls, idx, downloads_count, requests, attempts, sleeps,
                    plentiful, valid_run, jpeg_run, fs0, listed, fetchVars, seedVars, probeVars, batchVars >>

\* process_risk_item has returned: its locals are gone, and the histories of
\* the invocation with them; the next invocation may start
Return ==
    /\ pc = "done"
    /\ pc' = "idle"
    /\ search_engine' = "google"
    /\ max_images' = 1
    /\ risk_name_en' = << >>
    /\ risk_dir' = NoDir
    /\ existing' = 0
    /\ image_urls' = << >>
    /\ idx' = 0
    /\ downloads_count' = 0
    /\ requests' = << >>
    /\ attempts' = 0
    /\ sleeps' = 0
    /\ plentiful' = TRUE
    /\ valid_run' = TRUE
    /\ jpeg_run' = TRUE
    /\ fs0' = fs
    /\ listed' = TRUE
    /\ outcome' = "none"
    /\ UNCHANGED << listings, used, item, culture_ru, culture_en, risk_type, fs, made,
                    fetchVars, seedVars, probeVars, batchVars >>

Next == Start \/ Search \/ AltSearch \/ Skip \/ Download \/ Sleep \/ Finish \/ Return

Spec == Init /\ [][Next]_vars

(***************************************************************************)
(* The fetcher alone: one download_image call on a directory.              *)
(***************************************************************************)
RustGuid == Uuid5(GuidSeed(Diseases, Cereals, << "r", "u", "s", "t" >>))

FetchPath(number, ext) == SavePath(Diseases, Cereals, RustGuid, number, ext)

OldData == << "old" >>
NewData == << "new" >>

\* the files a directory may hold before the call
FetchFiles == { FetchPath(1, ".jpg"), FetchPath(1, ".png"), FetchPath(2, ".jpg") }

FetchDirs == { [p \in held |-> FullFile(OldData)] : held \in SUBSET FetchFiles }

\* the destination paths download_image is called with: process_risk_item
\* takes the extension from the URL (lines 678-680)
FetchSavePaths == { FetchPath(1, FileExt(e)) : e \in UrlExts }

InitFetch ==
    /\ item = ItemRzhavchina
    /\ InitCrawl
    /\ call \in { [done |-> FALSE, files |-> d, save_path |-> sp, resp |-> r,
                   data |-> NewData, ok |-> FALSE, path |-> NoPath, after |-> << >>] :
                  d \in FetchDirs, sp \in FetchSavePaths, r \in Responses }
    /\ triples = << >>
    /\ seeds = << >>
    /\ probe = NoProbe
    /\ batch = NoBatch

FetchCall ==
    /\ ~call.done
    /\ LET res == DownloadImage(call.files, call.save_path, call.resp, call.data)
       IN  call' = [call EXCEPT !.done = TRUE, !.ok = res.ok, !.path = res.path,
                                !.after = res.fs]
    /\ UNCHANGED << crawlVars, seedVars, probeVars, batchVars >>

NextFetch == FetchCall

SpecFetch == InitFetch /\ [][NextFetch]_vars

(***************************************************************************)
(* The identity derivation alone: the seeds of two triples.                *)
(***************************************************************************)
SeedChars == { "a", "A", "_" }

RECURSIVE TextsOfLen(_)
TextsOfLen(n) ==
    IF n = 0 THEN { << >> }
    ELSE { Append(t, c) : t \in TextsOfLen(n - 1), c \in SeedChars }

SeedNames == UNION { TextsOfLen(n) : n \in 1..MaxNameLen }

SeedTypes == { Diseases, Pests }

SeedCrops == { << "c" >>, << "C" >>, << "b" >>, << "c", "_" >> }

SeedTriples == { [rt |-> t, crop |-> c, name |-> n] :
                 t \in SeedTypes, c \in SeedCrops, n \in SeedNames }

SeedOf(t) == GuidSeed(t.rt, t.crop, t.name)

InitSeed ==
    /\ item = ItemRzhavchina
    /\ InitCrawl
    /\ call = NoCall
    /\ triples \in { << a, b >> : a \in SeedTriples, b \in SeedTriples }
    /\ seeds = << >>
    /\ probe = NoProbe
    /\ batch = NoBatch

DeriveSeeds ==
    /\ triples # << >>
    /\ seeds = << >>
    /\ seeds' = << SeedOf(triples[1]), SeedOf(triples[2]) >>
    /\ UNCHANGED << crawlVars, fetchVars, triples, probeVars, batchVars >>

NextSeed == DeriveSeeds

SpecSeed == InitSeed /\ [][NextSeed]_vars

(***************************************************************************)
(* Properties of the orchestrator (checked under Spec).                    *)
(***************************************************************************)

\* C1: cap respected.  No run downloads more than cap - existing_count new
\* images, and a run whose result pages were all plentiful and whose fetches
\* all gave valid images downloads exactly cap - existing_count, for every
\* engine selection.
C1_CapRespected ==
    (listed /\ existing = Cardinality(DOMAIN fs0) /\ existing < max_images) =>
        /\ downloads_count <= max_images - existing
        /\ (pc = "done" /\ outcome = "finished" /\ plentiful /\ valid_run
                => downloads_count = max_images - existing)

\* C2: idempotent re-run.  When the directory holds at least
\* max_images entries at the start of a run, the run sends no search request,
\* calls download_image never, and leaves the directory as it was.
C2_IdempotentRerun ==
    (pc # "idle" /\ Cardinality(DOMAIN fs0) >= max_images)
        => requests = << >> /\ attempts = 0 /\ fs = fs0 /\ pc = "done"

\* C5: no overwrite.  A file that is in the directory when a run starts is
\* still there, with the same content, at every later point of the run.
C5_NoOverwrite ==
    listings => \A p \in DOMAIN fs0 : p \in DOMAIN fs /\ fs[p] = fs0[p]

\* C7: sequence-number uniqueness.  No two files of the directory carry the
\* same sequence number.
C7_UniqueNumbers ==
    listings => \A p, q \in DOMAIN fs : p.number = q.number => p = q

\* the segments of the path of a risk directory under DOWNLOAD_DIR
DownloadDirParts ==
    << << "c", "r", "a", "w", "l", "e", "r" >>,
       << "d", "o", "w", "n", "l", "o", "a", "d" >>,
       << "i", "m", "a", "g", "e", "s" >> >>

\* C8: filename round trip.  The GUID in the name of every file written is
\* the UUID of the seed the converter builds from the segments of the file's
\* directory.
C8_RoundTrip ==
    \A dir \in made : \A p \in DOMAIN fs :
        p.guid = Uuid5(RenameSeed(DownloadDirParts \o dir))

\* C10: end-to-end scenario.  The row "Ржавчина" without an English name, cap
\* 3, an empty directory and one source offering 5 valid JPEG URLs: the run
\* writes exactly the three files _01.jpg, _02.jpg, _03.jpg with one GUID into
\* diseases/cereals/rzhavchina.
C10_EndToEnd ==
    ( /\ pc = "done" /\ outcome = "finished"
      /\ item = ItemRzhavchina /\ max_images = 3 /\ fs0 = << >>
      /\ search_engine \in { "google", "yandex" }
      /\ plentiful /\ jpeg_run )
    => /\ risk_dir = << Diseases, Cereals, Rzhavchina_lat >>
       /\ \E g \in { p.guid : p \in DOMAIN fs } :
            DOMAIN fs = { SavePath(Diseases, Cereals, g, n, ".jpg") : n \in 1..3 }
       /\ \A p \in DOMAIN fs : fs[p].state = "full"

(***************************************************************************)
(* Properties of the fetcher (checked under SpecFetch).                    *)
(***************************************************************************)

\* C3: undersized rejection.  A call that gets status 200, an image content
\* type and fewer than 1000 bytes returns False and leaves no file, at the
\* destination or at the resolved path, that was not there before.
C3_UndersizedRejected ==
    ( /\ call.done /\ call.resp.net = "ok" /\ call.resp.status = 200
      /\ call.resp.ctype.type = "image" /\ call.resp.size < 1000 )
    => /\ ~call.ok
       /\ \A p \in { call.save_path, call.path } :
            p \in DOMAIN call.after => p \in DOMAIN call.files

\* C4: content-type gate.  A call whose response content type does not start
\* with image/ returns False and creates or modifies no file, whatever the
\* payload size.
C4_ContentTypeGate ==
    (call.done /\ call.resp.net = "ok" /\ call.resp.ctype.type # "image")
    => ~call.ok /\ call.after = call.files

C4_Witness ==
    /\ call.done
    /\ call.resp.status = 200
    /\ call.resp.ctype = ContentType("text", "html")
    /\ call.resp.size >= 1000
    /\ call.resp.io = "none"
    /\ call.save_path \in DOMAIN call.files
    /\ ~call.ok

\* C6: atomic write.  After a call every file it created or changed holds
\* the complete payload, and a call that returns False has created or
\* changed no file.
C6_AtomicWrite ==
    call.done =>
      /\ \A p \in DOMAIN call.after :
           (p \notin DOMAIN call.files \/ call.after[p] # call.files[p])
               => call.after[p] = FullFile(call.data)
      /\ (~call.ok => DOMAIN call.after = DOMAIN call.files)

(***************************************************************************)
(* Properties of the identity derivation (checked under SpecSeed).         *)
(***************************************************************************)
LowerTriple(t) == [rt |-> Lower(t.rt), crop |-> Lower(t.crop), name |-> Lower(t.name)]

HasUnderscore(text) == \E k \in 1..Len(text) : text[k] = "_"

\* C9 as stated: two triples that differ in a component have different seeds.
C9_SeedsDifferAsStated ==
    (seeds # << >> /\ triples[1] # triples[2]) => seeds[1] # seeds[2]

\* C9: identity sensitivity.  Two triples that differ in a component after
\* lower-casing, and whose risk type and crop hold no underscore, have
\* different seeds and so different GUIDs.
C9_SeedsDiffer ==
    ( /\ seeds # << >>
      /\ LowerTriple(triples[1]) # LowerTriple(triples[2])
      /\ \A k \in 1..2 : ~HasUnderscore(triples[k].rt) /\ ~HasUnderscore(triples[k].crop) )
    => seeds[1] # seeds[2] /\ Uuid5(seeds[1]) # Uuid5(seeds[2])

C9_Witness ==
    /\ seeds # << >>
    /\ triples[1].rt = triples[2].rt
    /\ triples[1].name = triples[2].name
    /\ HasUnderscore(triples[1].name)
    /\ triples[1].crop = << "c" >>
    /\ triples[2].crop = << "b" >>
    /\ seeds[1] # seeds[2]

(***************************************************************************)
(* The file name parser alone: extract_culture_risk_info on one stem.      *)
(***************************************************************************)
MaxSegments == 4   \* a stem is made of 1..MaxSegments segments

Example == << "e", "x", "a", "m", "p", "l", "e" >>
Wheat == << "w", "h", "e", "a", "t" >>

\* the position of the first "_" of a text, 0 when it has none
RECURSIVE FirstUnderscore(_, _)
FirstUnderscore(text, k) ==
    IF k > Len(text) THEN 0
    ELSE IF text[k] = "_" THEN k
    ELSE FirstUnderscore(text, k + 1)

\* file_name.split('_')
RECURSIVE SplitUnderscore(_)
SplitUnderscore(text) ==
    LET k == FirstUnderscore(text, 1)
    IN  IF k = 0 THEN << text >>
        ELSE << SubSeq(text, 1, k - 1) >> \o SplitUnderscore(SubSeq(text, k + 1, Len(text)))

CultureRiskInfo(ru, en, rt) == [culture_ru |-> ru, culture_en |-> en, risk_type |-> rt]

UnknownInfo == CultureRiskInfo(Unknown, Unknown, Unknown)

\* a parser that takes two segments for a full name
ExtractCultureRiskInfo_short(stem) ==
    LET parts == SplitUnderscore(stem)
    IN  IF Len(parts) >= 2 THEN CultureRiskInfo(parts[2], Unknown, parts[1])
        ELSE UnknownInfo

\* a parser that knows no 'example' prefix
ExtractCultureRiskInfo_noexample(stem) ==
    LET parts == SplitUnderscore(stem)
    IN  IF Len(parts) >= 3 THEN CultureRiskInfo(parts[2], parts[3], parts[1])
        ELSE UnknownInfo

\* extract_culture_risk_info(file_path), given file_path.stem
ExtractCultureRiskInfo(stem) ==
    LET parts == SplitUnderscore(stem)
    IN  IF Len(parts) >= 4 /\ parts[1] = Example
        THEN CultureRiskInfo(parts[3], parts[4], parts[2])
        ELSE IF Len(parts) >= 3
        THEN CultureRiskInfo(parts[2], parts[3], parts[1])
        ELSE UnknownInfo

\* the segments stems are made of: words without an underscore, the empty one
\* among them
Segments == { Example, Diseases, Pests, Wheat, Cereals, Pshenitsa, << >> }

RECURSIVE SegmentLists(_)
SegmentLists(n) ==
    IF n = 0 THEN { << >> }
    ELSE { Append(l, w) : l \in SegmentLists(n - 1), w \in Segments }

\* '_'.join(segments)
RECURSIVE JoinSegments(_)
JoinSegments(segments) ==
    IF Len(segments) = 1 THEN segments[1]
    ELSE segments[1] \o << "_" >> \o JoinSegments(Tail(segments))

StemInputs == UNION { SegmentLists(n) : n \in 1..MaxSegments }

InitParse ==
    /\ item = ItemRzhavchina
    /\ InitCrawl
    /\ call = NoCall
    /\ triples = << >>
    /\ seeds = << >>
    /\ probe \in { [fn |-> "extract_culture_risk_info", done |-> FALSE,
                    segments |-> l, stem |-> JoinSegments(l), out |-> UnknownInfo] :
                   l \in StemInputs }
    /\ batch = NoBatch

ParseCall ==
    /\ probe.fn = "extract_culture_risk_info"
    /\ ~probe.done
    /\ probe' = [probe EXCEPT !.done = TRUE, !.out = ExtractCultureRiskInfo(probe.stem)]
    /\ UNCHANGED << crawlVars, fetchVars, seedVars, batchVars >>

NextParse == ParseCall

SpecParse == InitParse /\ [][NextParse]_vars

(***************************************************************************)
(* Properties of the file name parser (checked under SpecParse).           *)
(***************************************************************************)

\* C11: malformed filename fallback.  A stem with fewer than three segments
\* gives ('unknown', 'unknown', 'unknown').
C11_MalformedFallback ==
    (probe.done /\ Len(probe.segments) < 3) => probe.out = UnknownInfo

C11_Witness ==
    /\ probe.done
    /\ probe.segments = << Wheat, Cereals >>
    /\ probe.out = UnknownInfo

\* C12 as stated: filename parsing.  A stem rt_ru_en gives (ru, en, rt), a stem
\* example_rt_ru_en gives the same triple, and the risk type returned is never
\* the word 'example'.
C12_ParsingAsStated ==
    probe.done =>
      /\ (Len(probe.segments) = 3 =>
            probe.out = CultureRiskInfo(probe.segments[2], probe.segments[3],
                                        probe.segments[1]))
      /\ (Len(probe.segments) = 4 /\ probe.segments[1] = Example =>
            probe.out = CultureRiskInfo(probe.segments[3], probe.segments[4],
                                        probe.segments[2]))
      /\ probe.out.risk_type # Example

\* C12: filename parsing.  A stem rt_ru_en gives (ru, en, rt), a stem
\* example_rt_ru_en gives the same triple, and the risk type returned is
\* 'example' only for a stem that starts with 'example' and has three segments
\* or 'example' as its second segment too.
C12_Parsing ==
    probe.done =>
      /\ (Len(probe.segments) = 3 =>
            probe.out = CultureRiskInfo(probe.segments[2], probe.segments[3],
                                        probe.segments[1]))
      /\ (Len(probe.segments) = 4 /\ probe.segments[1] = Example =>
            probe.out = CultureRiskInfo(probe.segments[3], probe.segments[4],
                                        probe.segments[2]))
      /\ (probe.out.risk_type = Example =>
            /\ probe.segments[1] = Example
            /\ (Len(probe.segments) = 3 \/ probe.segments[2] = Example))

C12_Witness ==
    /\ probe.done
    /\ probe.segments = << Example, Diseases, Wheat, Cereals >>
    /\ probe.out = CultureRiskInfo(Wheat, Cereals, Diseases)

(***************************************************************************)
(* The query builder alone: create_search_query on two argument lists.     *)
(***************************************************************************)
\* "Тля"
Tlya == << "U+0422", "U+043B", "U+044F" >>

\* "Diseases", with a capital
DiseasesCap == << "D", "i", "s", "e", "a", "s", "e", "s" >>

\* the default of the parameter search_engine
DefaultEngine == "google"

QueryNames == { Rzhavchina_ru, Tlya }

QueryCultures == { Pshenitsa, Wheat }

QueryRiskTypes == { Diseases, Pests, Weeds, DiseasesCap }

\* the engine argument: left out, or one of these
QueryEngines == { "default", "google", "yandex", "both", "Yandex", "bing" }

QueryArgs == { [risk_name |-> n, culture |-> c, risk_type |-> t, search_engine |-> e] :
               n \in QueryNames, c \in QueryCultures, t \in QueryRiskTypes,
               e \in QueryEngines }

EngineOf(args) ==
    IF args.search_engine = "default" THEN DefaultEngine ELSE args.search_engine

QueryOf(args) ==
    CreateSearchQuery(args.risk_name, args.culture, args.risk_type, EngineOf(args))

\* the words of a query that are neither the risk name nor the crop
TemplateOf(query, args) ==
    LET IsTemplateWord(w) == w # args.risk_name /\ w # args.culture
    IN  SelectSeq(query, IsTemplateWord)

InitQuery ==
    /\ item = ItemRzhavchina
    /\ InitCrawl
    /\ call = NoCall
    /\ triples = << >>
    /\ seeds = << >>
    /\ probe \in { [fn |-> "create_search_query", done |-> FALSE, args |-> << a, b >>,
                    out |-> << >>] : a \in QueryArgs, b \in QueryArgs }
    /\ batch = NoBatch

QueryCall ==
    /\ probe.fn = "create_search_query"
    /\ ~probe.done
    /\ probe' = [probe EXCEPT !.done = TRUE,
                              !.out = << QueryOf(probe.args[1]), QueryOf(probe.args[2]) >>]
    /\ UNCHANGED << crawlVars, fetchVars, seedVars, batchVars >>

NextQuery == QueryCall

SpecQuery == InitQuery /\ [][NextQuery]_vars

(***************************************************************************)
(* Properties of the query builder (checked under SpecQuery).              *)
(***************************************************************************)

\* C13: query template.  With the default engine the query is
\* '<risk_name> болезнь <culture> фото' for 'diseases' and
\* '<risk_name> вредитель <culture> фото' for 'pests'; two calls with the same
\* arguments give the same query, and two calls with the same risk type and
\* engine use the same template.
C13_QueryTemplate ==
    probe.done =>
      /\ \A k \in 1..2 :
           LET a == probe.args[k]
           IN  a.search_engine = "default" =>
                 /\ (a.risk_type = Diseases =>
                       probe.out[k] = << a.risk_name, WordBolezn, a.culture, WordFoto >>)
                 /\ (a.risk_type = Pests =>
                       probe.out[k] = << a.risk_name, WordVreditel, a.culture, WordFoto >>)
      /\ (probe.args[1] = probe.args[2] => probe.out[1] = probe.out[2])
      /\ ( ( /\ probe.args[1].risk_type = probe.args[2].risk_type
             /\ EngineOf(probe.args[1]) = EngineOf(probe.args[2]) )
           => TemplateOf(probe.out[1], probe.args[1]) = TemplateOf(probe.out[2], probe.args[2]) )

C13_Witness ==
    /\ probe.done
    /\ probe.args[1] = [risk_name |-> Rzhavchina_ru, culture |-> Pshenitsa,
                        risk_type |-> Diseases, search_engine |-> "default"]
    /\ probe.args[2] = [risk_name |-> Tlya, culture |-> Pshenitsa,
                        risk_type |-> Pests, search_engine |-> "default"]
    /\ probe.out[1] = << Rzhavchina_ru, WordBolezn, Pshenitsa, WordFoto >>
    /\ probe.out[2] = << Tlya, WordVreditel, Pshenitsa, WordFoto >>

(***************************************************************************)
(* The language of a query.                                                *)
(***************************************************************************)
\* the words the query templates are written with, all of them Russian
LocalWords ==
    { WordBolezn, WordVreditel, WordFoto, WordVysokoe, WordKachestvo, WordMakro }

LettersOf(text) == { text[k] : k \in 1..Len(text) }

\* the Cyrillic letters of the model's texts
CyrillicLetters ==
    ( LettersOf(Pshenitsa) \cup LettersOf(Rzhavchina_ru)
        \cup LettersOf(BurayaRzhavchina_ru) \cup LettersOf(Tlya) ) \ { " " }

IsLocalWord(word) == word \in LocalWords \/ LettersOf(word) \cap CyrillicLetters # { }

\* a query with a word of the local language in it
IsLocalQuery(query) == \E k \in 1..Len(query) : IsLocalWord(query[k])

\* a query without any
IsEnglishQuery(query) == \A k \in 1..Len(query) : ~IsLocalWord(query[k])

(***************************************************************************)
(* More properties of the orchestrator (checked under Spec).               *)
(***************************************************************************)

\* C14: multi-language queries.  A run for a row with a usable name that
\* has done its searching has sent a query in the local language and a query
\* in English.
C14_MultiLanguage ==
    (pc = "done" /\ outcome \in { "finished", "no_urls" }) =>
        /\ \E k \in 1..Len(requests) : IsLocalQuery(requests[k].query)
        /\ \E k \in 1..Len(requests) : IsEnglishQuery(requests[k].query)

(***************************************************************************)
(* The source adapters alone: get_google_image_urls and                    *)
(* get_yandex_image_urls on one response.                                  *)
(***************************************************************************)
MaxPageUrls == 3   \* a result page holds 0..MaxPageUrls URL matches
MaxResults == 3    \* max_images ranges over 0..MaxResults

\* the URL matches of a page; Yandex escapes the slashes of its JSON
AdapterUrls == { "https://e.com/a.jpg", "https://e.com/b.png", "https://e.com\\/a.jpg" }

\* what re.findall gives on a page: its URL matches in page order, a URL as
\* often as the page holds it
RECURSIVE UrlLists(_)
UrlLists(n) ==
    IF n = 0 THEN { << >> }
    ELSE { Append(l, u) : l \in UrlLists(n - 1), u \in AdapterUrls }

FoundUrlLists == UNION { UrlLists(n) : n \in 0..MaxPageUrls }

\* what requests.get and raise_for_status can raise: requests.Timeout,
\* requests.ConnectionError, requests.HTTPError
RequestExceptions == { "Timeout", "ConnectionError", "HTTPError" }

\* the answer to the search request: an exception, or a page
SearchResponses ==
    { [exc |-> e, found_urls |-> << >>] : e \in RequestExceptions }
    \cup { [exc |-> "none", found_urls |-> l] : l \in FoundUrlLists }

\* no second request
NoResponse == [exc |-> "none", found_urls |-> << >>]

\* what Google answers when get_images_with_fallback turns to it
FallbackResponses ==
    { r \in SearchResponses : Len(r.found_urls) <= 1 }

\* a handler for HTTP errors only
Handled_httponly(exc) == exc = "HTTPError"

\* except Exception as e: every exception of the request is one
Handled(exc) == exc \in RequestExceptions

AdapterResult(urls, raised) == [urls |-> urls, raised |-> raised, http_requests |-> 1]

\* the body of an adapter: one requests.get, then the collecting loop; what
\* the request raises is caught by the handler and turned into []
AdapterBody(response, max) ==
    IF response.exc # "none"
    THEN IF Handled(response.exc) THEN AdapterResult(<< >>, "none")
         ELSE AdapterResult(<< >>, response.exc)
    ELSE AdapterResult(CollectUrls(response.found_urls, << >>, max), "none")

\* get_google_image_urls(query, max_images)
GoogleAdapter(response, max) == AdapterBody(response, max)

\* url.replace("\\", ""): the URL without its backslashes
RECURSIVE RemoveBackslashes(_)
RemoveBackslashes(url) ==
    IF Len(url) = 0 THEN ""
    ELSE ( IF SubSeq(url, 1, 1) = "\\" THEN "" ELSE SubSeq(url, 1, 1) )
         \o RemoveBackslashes(SubSeq(url, 2, Len(url)))

\* get_yandex_image_urls(query, max_images): every match loses its
\* backslashes before it is collected
YandexAdapter(response, max) ==
    AdapterBody([response EXCEPT
                   !.found_urls = [k \in 1..Len(@) |-> RemoveBackslashes(@[k])]], max)

\* get_images_with_fallback(query, max_images): Yandex first; when Yandex
\* gave no URL, line 106 imports get_google_image_urls from ImageCrawler.
\* ImageCrawler.py as it stands does not compile (a second file sits inside
\* the docstring of create_search_query, lines 130-415), so the import raises
\* SyntaxError, which nothing catches: Google is never asked, whatever its
\* page response_g would hold
ImagesWithFallback(response_y, response_g, max) ==
    LET y == YandexAdapter(response_y, max)
    IN  IF y.raised # "none" \/ y.urls # << >> THEN y
        ELSE [urls |-> << >>, raised |-> "SyntaxError",
              http_requests |-> y.http_requests]

HasDuplicates(urls) == \E i, j \in 1..Len(urls) : i # j /\ urls[i] = urls[j]

InitAdapter ==
    /\ item = ItemRzhavchina
    /\ InitCrawl
    /\ call = NoCall
    /\ triples = << >>
    /\ seeds = << >>
    /\ \E f \in { "get_google_image_urls", "get_yandex_image_urls",
                   "get_images_with_fallback" } :
         probe \in { [fn |-> f, done |-> FALSE, response |-> r, response_g |-> g,
                      max_images |-> m, out |-> AdapterResult(<< >>, "none")] :
                    r \in SearchResponses,
                    g \in IF f = "get_images_with_fallback" THEN FallbackResponses
                          ELSE { NoResponse },
                    m \in 0..MaxResults }
    /\ batch = NoBatch

GoogleCall ==
    /\ probe.fn = "get_google_image_urls"
    /\ ~probe.done
    /\ probe' = [probe EXCEPT !.done = TRUE,
                              !.out = GoogleAdapter(probe.response, probe.max_images)]
    /\ UNCHANGED << crawlVars, fetchVars, seedVars, batchVars >>

YandexCall ==
    /\ probe.fn = "get_yandex_image_urls"
    /\ ~probe.done
    /\ probe' = [probe EXCEPT !.done = TRUE,
                              !.out = YandexAdapter(probe.response, probe.max_images)]
    /\ UNCHANGED << crawlVars, fetchVars, seedVars, batchVars >>

FallbackCall ==
    /\ probe.fn = "get_images_with_fallback"
    /\ ~probe.done
    /\ probe' = [probe EXCEPT !.done = TRUE,
                              !.out = ImagesWithFallback(probe.response, probe.response_g,
                                                         probe.max_images)]
    /\ UNCHANGED << crawlVars, fetchVars, seedVars, batchVars >>

NextAdapter == GoogleCall \/ YandexCall \/ FallbackCall

\* a call of one of the two source adapters
AdapterDone ==
    /\ probe.done
    /\ probe.fn \in { "get_google_image_urls", "get_yandex_image_urls" }

SpecAdapter == InitAdapter /\ [][NextAdapter]_vars

(***************************************************************************)
(* Properties of the source adapters (checked under SpecAdapter).          *)
(***************************************************************************)

\* C15: result bound.  The list an adapter returns holds no URL twice and
\* at most max_images URLs.
C15_ResultBound ==
    AdapterDone =>
      /\ ~HasDuplicates(probe.out.urls)
      /\ Len(probe.out.urls) <= probe.max_images

\* C16: error containment.  When the search request times out, cannot
\* connect or has a non-success status, the adapter returns the empty list
\* and raises nothing; every call makes exactly one HTTP request.
C16_ErrorContainment ==
    AdapterDone =>
      /\ (probe.response.exc # "none" =>
            probe.out.urls = << >> /\ probe.out.raised = "none")
      /\ probe.out.http_requests = 1

C16_Witness ==
    /\ probe.done
    /\ probe.fn = "get_yandex_image_urls"
    /\ probe.response.exc = "Timeout"
    /\ probe.max_images = 3
    /\ probe.out.urls = << >>
    /\ probe.out.raised = "none"

(***************************************************************************)
(* More properties of the orchestrator (checked under Spec), continued.    *)
(***************************************************************************)

\* C17: missing-name skip.  For a row whose name is missing, empty or only
\* whitespace a run ends at once: no directory is made, no search request
\* sent, no download attempted and no file written.
C17_MissingNameSkip ==
    (pc # "idle" /\ \A k \in 1..Len(Get(item, "name")) : Get(item, "name")[k] \in Whitespace) =>
        /\ pc = "done"
        /\ outcome = "skipped"
        /\ made = { }
        /\ requests = << >>
        /\ attempts = 0
        /\ fs = << >>

C17_Witness ==
    /\ pc = "done"
    /\ outcome = "skipped"
    /\ item = ItemNoName
    /\ made = { }
    /\ requests = << >>

(***************************************************************************)
(* The batch loop alone: process_csv_file over the rows of one table.      *)
(***************************************************************************)
MaxRows == 3   \* a table holds 0..MaxRows rows

\* how the processing of a row ends: images downloaded, the row skipped, its
\* directory not created, a file not written (all four: process_risk_item
\* returns), or an exception that leaves process_risk_item
RowOutcomes == { "downloaded", "skipped", "mkdir_failed", "write_failed", "exception" }

RECURSIVE RowLists(_)
RowLists(n) ==
    IF n = 0 THEN { << >> }
    ELSE { Append(l, o) : l \in RowLists(n - 1), o \in RowOutcomes }

Tables == UNION { RowLists(n) : n \in 0..MaxRows }

\* a loop whose handler lets the exception of a row through
Survives_none(row_outcome) == row_outcome # "exception"

\* try: process_risk_item(...) except Exception: the loop goes on
Survives(row_outcome) == TRUE

InitBatch ==
    /\ item = ItemRzhavchina
    /\ InitCrawl
    /\ call = NoCall
    /\ triples = << >>
    /\ seeds = << >>
    /\ probe = NoProbe
    /\ batch \in { [rows |-> t, done |-> FALSE, i |-> 0, attempted |-> << >>,
                    successful_items |-> 0, sleeps |-> 0, aborted |-> FALSE] :
                   t \in Tables }

\* one turn of the loop: the row is processed, then the pause
BatchRow ==
    /\ ~batch.done
    /\ batch.i < Len(batch.rows)
    /\ LET k == batch.i + 1
           row_outcome == batch.rows[k]
       IN  IF Survives(row_outcome)
           THEN batch' = [batch EXCEPT
                            !.i = k,
                            !.attempted = Append(@, k),
                            !.successful_items =
                                IF row_outcome = "exception" THEN @ ELSE @ + 1,
                            !.sleeps = @ + 1]
           ELSE batch' = [batch EXCEPT !.i = k, !.attempted = Append(@, k),
                                       !.done = TRUE, !.aborted = TRUE]
    /\ UNCHANGED << crawlVars, fetchVars, seedVars, probeVars >>

\* the rows are used up: the summary is logged and process_csv_file returns
BatchEnd ==
    /\ ~batch.done
    /\ batch.i = Len(batch.rows)
    /\ batch' = [batch EXCEPT !.done = TRUE]
    /\ UNCHANGED << crawlVars, fetchVars, seedVars, probeVars >>

NextBatch == BatchRow \/ BatchEnd

SpecBatch == InitBatch /\ [][NextBatch]_vars

(***************************************************************************)
(* Properties of the batch loop (checked under SpecBatch).                 *)
(***************************************************************************)

\* C18: the batch survives a record's failure.  The rows are attempted one
\* by one in row order, each once; when process_csv_file returns every row
\* has been attempted, whatever the failures of the rows before it.
C18_BatchSurvives ==
    /\ batch.attempted = [k \in 1..batch.i |-> k]
    /\ (batch.done => batch.i = Len(batch.rows) /\ ~batch.aborted)

C18_Witness ==
    /\ batch.done
    /\ batch.rows = << "mkdir_failed", "exception", "downloaded" >>
    /\ batch.attempted = << 1, 2, 3 >>
    /\ batch.successful_items = 2

(***************************************************************************)
(* More properties of the fetcher (checked under SpecFetch).               *)
(***************************************************************************)
\* the extension the claims give for a content type
StatedExtension(content_type) ==
    IF content_type.subtype = "jpeg" THEN ".jpg"
    ELSE IF content_type.subtype = "png" THEN ".png"
    ELSE IF content_type.subtype = "webp" THEN ".webp"
    ELSE IF content_type.subtype = "gif" THEN ".gif"
    ELSE "other"

\* C19: extension from content type.  After a successful call the
\* file written carries the extension of the content type (jpg, png, webp,
\* gif), whatever the extension of the destination path was.
C19_ExtensionFromType ==
    ( /\ call.done /\ call.ok
      /\ StatedExtension(call.resp.ctype) # "other" )
    => /\ call.path.ext = StatedExtension(call.resp.ctype)
       /\ call.path = [call.save_path EXCEPT !.ext = StatedExtension(call.resp.ctype)]
       /\ call.path \in DOMAIN call.after

C19_Witness ==
    /\ call.done
    /\ call.ok
    /\ call.save_path.ext = ".jpg"
    /\ call.resp.ctype = ContentType("image", "png")
    /\ call.path.ext = ".png"
    /\ call.path \in DOMAIN call.after

\* C20: successful download stores the payload.  A call whose
\* fetch returns a response with payload P returns True and leaves a file
\* with exactly P at the destination path; whenever the call returns True the
\* destination file exists with the complete payload.
C20_StoresPayload ==
    /\ ( call.done /\ call.resp.net = "ok" )
         => /\ call.ok
            /\ call.save_path \in DOMAIN call.after
            /\ call.after[call.save_path] = FullFile(call.data)
    /\ ( call.done /\ call.ok )
         => /\ call.save_path \in DOMAIN call.after
            /\ call.after[call.save_path] = FullFile(call.data)

(***************************************************************************)
(* The format converters: convert_webp_to_jpg of convert_webp.py and of    *)
(* convert_webp_to_jpg.py, one call on one directory.                      *)
(***************************************************************************)
\* what a file of the directory holds: the image it was stored for and the
\* format of its data
StoredImage(path) ==
    [image |-> path, format |-> IF ExtLower(path.ext) = ".webp" THEN "WEBP" ELSE "JPEG"]

\* img.save(jpg_path, 'JPEG'): the same image, as JPEG data
Converted(content) == [content EXCEPT !.format = "JPEG"]

\* what an interrupted img.save leaves in the target
Truncated(content) == [content EXCEPT !.format = "truncated"]

\* os.remove(file_path)
RemoveFile(files, path) == [p \in DOMAIN files \ { path } |-> files[p]]

\* convert_webp.py: os.path.splitext(file_path)[0] + '.jpg'
JpgPath_splitext(file_path) == [file_path EXCEPT !.ext = ".jpg"]

\* convert_webp_to_jpg.py: file_path.replace('.webp', '.jpg').replace('.WEBP',
\* '.jpg'); the other components of the paths of the model hold no '.webp'
JpgPath_replace(file_path) ==
    IF file_path.ext \in { ".webp", ".WEBP" }
    THEN [file_path EXCEPT !.ext = ".jpg"]
    ELSE file_path

ConverterModules == { "convert_webp", "convert_webp_to_jpg" }

JpgPath(module, file_path) ==
    IF module = "convert_webp" THEN JpgPath_splitext(file_path)
    ELSE JpgPath_replace(file_path)

\* what may go wrong in a call: Image.open raises, img.save raises and leaves
\* the target untouched or truncated, os.remove raises
ConverterFaults == { "none", "open", "save_untouched", "save_truncated", "remove" }

Returned(files, result) == [fs |-> files, result |-> result]

\* convert_webp_to_jpg(file_path, delete_original): the directory after the
\* call and the path returned, NoPath standing for None
ConvertWebpToJpg(module, files, file_path, delete_original, fault) ==
    IF ExtLower(file_path.ext) # ".webp" THEN Returned(files, NoPath)
    ELSE IF file_path \notin DOMAIN files \/ fault = "open"
         THEN Returned(files, NoPath)
    ELSE LET jpg_path == JpgPath(module, file_path)
             saved == WriteFile(files, jpg_path, Converted(files[file_path]))
         IN  IF fault = "save_untouched" THEN Returned(files, NoPath)
             ELSE IF fault = "save_truncated"
                  THEN Returned(WriteFile(files, jpg_path,
                                          Truncated(files[file_path])), NoPath)
             ELSE IF ~delete_original THEN Returned(saved, jpg_path)
             ELSE IF fault = "remove" THEN Returned(saved, NoPath)
             ELSE Returned(RemoveFile(saved, file_path), jpg_path)

(***************************************************************************)
(* The directory tools: rename_file_according_to_pattern and               *)
(* process_directory of convert_webp_to_jpg.py, fix_filename and           *)
(* process_directory of convert_webp.py.  A file of the tree is            *)
(* [dir, stem, ext]: the segments of its directory, and its name split by  *)
(* os.path.splitext.                                                       *)
(***************************************************************************)
LettersOfAlphabet == { LowerLetters[k] : k \in 1..Len(LowerLetters) }

\* os.path.splitext(filename): the extension starts at the last dot, unless
\* only dots come before it
Splitext(filename) ==
    LET dots == { k \in 1..Len(filename) : filename[k] = "." }
        d == CHOOSE k \in dots : \A j \in dots : j <= k
    IN  IF dots # { } /\ \E k \in 1..(d - 1) : filename[k] # "."
        THEN [root |-> SubSeq(filename, 1, d - 1),
              ext |-> SubSeq(filename, d, Len(filename))]
        ELSE [root |-> filename, ext |-> << >>]

\* os.path.join(directory, filename)
TreePath(dir, filename) ==
    [dir |-> dir, stem |-> Splitext(filename).root, ext |-> Flat(Splitext(filename).ext)]

\* os.path.basename(file_path)
Basename(file_path) == file_path.stem \o Chars(file_path.ext)

\* text.endswith(suffix)
EndsWith(text, suffix) ==
    /\ Len(suffix) <= Len(text)
    /\ SubSeq(text, Len(text) - Len(suffix) + 1, Len(text)) = suffix

\* filename.lower().endswith(suffixes)
LowerEndsWith(filename, suffixes) ==
    \E suffix \in suffixes : EndsWith(Lower(filename), Chars(suffix))

\* the end of the run of digits that starts at position k (k - 1 when there
\* is no digit at k)
RECURSIVE DigitsEnd(_, _)
DigitsEnd(text, k) ==
    IF k <= Len(text) /\ text[k] \in Digits THEN DigitsEnd(text, k + 1) ELSE k - 1

\* re.search(r'_(\d+)\.[a-z]+$', filename).group(1), << >> without a match
NumberAtEnd(filename) ==
    LET starts == { k \in 1..Len(filename) :
                      /\ filename[k] = "_"
                      /\ DigitsEnd(filename, k + 1) > k
                      /\ DigitsEnd(filename, k + 1) + 2 <= Len(filename)
                      /\ filename[DigitsEnd(filename, k + 1) + 1] = "."
                      /\ \A j \in (DigitsEnd(filename, k + 1) + 2)..Len(filename) :
                           filename[j] \in LettersOfAlphabet }
        k == CHOOSE k \in starts : \A j \in starts : k <= j
    IN  IF starts = { } THEN << >>
        ELSE SubSeq(filename, k + 1, DigitsEnd(filename, k + 1))

\* re.search(r'_(\d+)\.', filename).group(1), << >> without a match
NumberBeforeDot(filename) ==
    LET starts == { k \in 1..Len(filename) :
                      /\ filename[k] = "_"
                      /\ DigitsEnd(filename, k + 1) > k
                      /\ DigitsEnd(filename, k + 1) + 1 <= Len(filename)
                      /\ filename[DigitsEnd(filename, k + 1) + 1] = "." }
        k == CHOOSE k \in starts : \A j \in starts : k <= j
    IN  IF starts = { } THEN << >>
        ELSE SubSeq(filename, k + 1, DigitsEnd(filename, k + 1))

\* os.rename(src, dst) on a POSIX system: dst is replaced when it exists
OsRename(files, src, dst) ==
    [p \in ( DOMAIN files \ { src } ) \cup { dst } |->
       IF p = dst THEN files[src] ELSE files[p]]

\* risk_type, culture and disease_name of rename_file_according_to_pattern
RenameRiskType(path_parts) ==
    LET k == FirstRiskIndex(path_parts, 1)
    IN  IF k = 0 THEN Unknown ELSE path_parts[k]

RenameCulture(path_parts) ==
    LET k == FirstRiskIndex(path_parts, 1)
    IN  IF k # 0 /\ k + 1 <= Len(path_parts) THEN Lower(path_parts[k + 1]) ELSE Unknown

\* rename_file_according_to_pattern(file_path): the tree after the call and
\* the path returned.  A name without a number at its end reaches
\* random.randint at line 104; the module does not import random, the
\* NameError is caught at line 119 and the file keeps its name.  So does a
\* file that os.rename does not find.
RenameFileAccordingToPattern(files, file_path) ==
    LET path_parts == file_path.dir
        filename == Basename(file_path)
        guid == RenameGuid(path_parts, filename)
        number == NumberAtEnd(filename)
        extension == Splitext(filename).ext
        new_filename == RenameRiskType(path_parts) \o << "_" >>
                        \o RenameCulture(path_parts) \o << "_" >>
                        \o guid \o << "_" >> \o number \o extension
        new_path == TreePath(file_path.dir, new_filename)
    IN  IF number = << >> \/ file_path \notin DOMAIN files
        THEN Returned(files, file_path)
        ELSE Returned(OsRename(files, file_path, new_path), new_path)

\* the files below a directory (recursive) or in it
IsPrefix(a, b) == Len(a) <= Len(b) /\ SubSeq(b, 1, Len(a)) = a

FilesUnder(files, directory, recursive) ==
    { p \in DOMAIN files :
        IF recursive THEN IsPrefix(directory, p.dir) ELSE p.dir = directory }

\* a listing: the files of a set in an order in which the files of one
\* directory come together, as os.walk and os.listdir give them
Listings(paths) ==
    { l \in [1..Cardinality(paths) -> paths] :
        /\ \A i, j \in DOMAIN l : l[i] = l[j] => i = j
        /\ \A i, j, k \in DOMAIN l :
             ( i < j /\ j < k /\ l[i].dir = l[k].dir ) => l[j].dir = l[i].dir }

\* the loop of lines 151-161 of convert_webp_to_jpg.py from file i on:
\* convert, and rename what was converted; `undecodable` holds the files
\* Image.open cannot read
RECURSIVE ConvertAndRename(_, _, _, _, _)
ConvertAndRename(files, files_to_process, i, rename, undecodable) ==
    IF i > Len(files_to_process) THEN files
    ELSE LET file_path == files_to_process[i]
             converted == ConvertWebpToJpg("convert_webp_to_jpg", files, file_path, TRUE,
                                           IF file_path \in undecodable THEN "open"
                                           ELSE "none")
             renamed == IF converted.result # NoPath /\ rename
                        THEN RenameFileAccordingToPattern(converted.fs,
                                                          converted.result).fs
                        ELSE converted.fs
         IN  ConvertAndRename(renamed, files_to_process, i + 1, rename, undecodable)

\* the loop of lines 178-181: the files of jpg_files in turn; each of them
\* has no number at its end, so the order of the listing changes nothing
RECURSIVE RenameAll(_, _)
RenameAll(files, jpg_files) ==
    IF jpg_files = { } THEN files
    ELSE LET jpg_path == CHOOSE p \in jpg_files : TRUE
         IN  RenameAll(RenameFileAccordingToPattern(files, jpg_path).fs,
                       jpg_files \ { jpg_path })

\* process_directory(directory, rename, recursive) of convert_webp_to_jpg.py;
\* `dirs` are the directories that exist, `listing` the order in which the
\* .webp files are met
ProcessDirectory(files, dirs, directory, rename, recursive, listing, undecodable) ==
    IF directory \notin dirs THEN files
    ELSE LET converted == ConvertAndRename(files, listing, 1, rename, undecodable)
             jpg_files == { p \in FilesUnder(converted, directory, recursive) :
                              /\ LowerEndsWith(Basename(p), { ".jpg", ".jpeg" })
                              /\ NumberAtEnd(Basename(p)) = << >> }
         IN  IF rename THEN RenameAll(converted, jpg_files) ELSE converted

\* the .webp files process_directory collects
WebpFiles(files, directory, recursive) ==
    { p \in FilesUnder(files, directory, recursive) :
        LowerEndsWith(Basename(p), { ".webp" }) }

\* [a-z]+, [a-f0-9\-]+, \d+ and \w+ of the patterns of convert_webp.py
AllIn(text, class) == text # << >> /\ \A k \in 1..Len(text) : text[k] \in class

AllHexOrDash(text) ==
    /\ text # << >>
    /\ \A k \in 1..Len(text) : text[k] \in HexDigits \cup { "-" } \/ IsUuidElement(text[k])

IsWordChar(c) ==
    /\ IsWordOrSpace(c)
    /\ c \notin Whitespace \cup { "/", "\\" }
    /\ ~IsUuidElement(c)

\* len(text)
RECURSIVE TextLen(_)
TextLen(text) ==
    IF text = << >> THEN 0
    ELSE ( IF IsUuidElement(Head(text)) THEN 36 ELSE 1 ) + TextLen(Tail(text))

\* is_valid_risk_filename(filename):
\* re.match(r'^(diseases|pests|weeds)_[a-z]+_[a-f0-9\-]+_\d+\.\w+$', filename.lower())
IsValidRiskFilename(filename) ==
    LET lower == Lower(filename)
        u1 == FirstUnderscore(lower, 1)
        u2 == FirstUnderscore(lower, u1 + 1)
        u3 == FirstUnderscore(lower, u2 + 1)
        d == DigitsEnd(lower, u3 + 1)
    IN  /\ u1 # 0 /\ u2 # 0 /\ u3 # 0
        /\ SubSeq(lower, 1, u1 - 1) \in RiskTypes
        /\ AllIn(SubSeq(lower, u1 + 1, u2 - 1), LettersOfAlphabet)
        /\ AllHexOrDash(SubSeq(lower, u2 + 1, u3 - 1))
        /\ d > u3
        /\ d + 2 <= Len(lower)
        /\ lower[d + 1] = "."
        /\ \A k \in (d + 2)..Len(lower) : IsWordChar(lower[k])

\* the last position of a sequence that satisfies a test, 0 without one
LastIndex(flags) ==
    IF \E k \in DOMAIN flags : flags[k]
    THEN CHOOSE k \in DOMAIN flags : flags[k] /\ \A j \in DOMAIN flags : flags[j] => j <= k
    ELSE 0

\* fix_filename(filename, filepath)
FixFilename(filename, file_path) ==
    LET path_parts == file_path.dir \o << Basename(file_path) >>
        r == LastIndex([k \in DOMAIN path_parts |-> Lower(path_parts[k]) \in RiskTypes])
        g == LastIndex([k \in DOMAIN path_parts |->
                          AllHexOrDash(path_parts[k]) /\ TextLen(path_parts[k]) > 30])
        at == { i \in 2..Len(path_parts) : path_parts[i] = path_parts[g] }
        found == IF at = { } THEN << >>
                 ELSE Lower(path_parts[( CHOOSE i \in at : \A j \in at : i <= j ) - 1])
        culture == IF found = << >> THEN Unknown ELSE found
        number_match == NumberBeforeDot(filename)
        number == IF number_match = << >> THEN << "0", "0" >> ELSE number_match
    IN  IF IsValidRiskFilename(filename) THEN filename
        ELSE IF r = 0 \/ g = 0 THEN filename
        ELSE Lower(path_parts[r]) \o << "_" >> \o culture \o << "_" >> \o path_parts[g]
             \o << "_" >> \o number \o Splitext(filename).ext

\* the body of the loop of lines 146-168 of convert_webp.py for one file
FixOneFile(files, file_path, fix_names, undecodable) ==
    LET is_webp == LowerEndsWith(Basename(file_path), { ".webp" })
        converted == IF is_webp
                     THEN ConvertWebpToJpg("convert_webp", files, file_path, TRUE,
                                           IF file_path \in undecodable THEN "open"
                                           ELSE "none")
                     ELSE Returned(files, NoPath)
        path == IF converted.result # NoPath THEN converted.result ELSE file_path
        filename == Basename(path)
        new_filename == FixFilename(filename, path)
        new_path == TreePath(path.dir, new_filename)
    IN  IF /\ fix_names
           /\ LowerEndsWith(filename, { ".jpg", ".jpeg", ".png", ".gif" })
           /\ ~IsValidRiskFilename(filename)
           /\ new_filename # filename
           /\ path \in DOMAIN converted.fs
        THEN OsRename(converted.fs, path, new_path)
        ELSE converted.fs

\* process_directory(directory, fix_names) of convert_webp.py from file i of
\* the listing of os.walk on
RECURSIVE FixDirectory(_, _, _, _, _)
FixDirectory(files, listing, i, fix_names, undecodable) ==
    IF i > Len(listing) THEN files
    ELSE FixDirectory(FixOneFile(files, listing[i], fix_names, undecodable),
                      listing, i + 1, fix_names, undecodable)

\* the files a directory may hold before the call
ConverterFiles ==
    { FetchPath(1, ".webp"), FetchPath(1, ".WEBP"), FetchPath(1, ".WebP"),
      FetchPath(1, ".jpg"), FetchPath(2, ".webp") }

ConverterDirs == { [p \in held |-> StoredImage(p)] : held \in SUBSET ConverterFiles }

\* the trees the directory tools are run on: at most MaxTreeFiles of these files
MaxTreeFiles == 2

ToolRoot == DownloadDirParts \o << Diseases, Cereals >>

RustDir == ToolRoot \o << << "r", "u", "s", "t" >> >>

GuidDir == ToolRoot \o << Chars("aaaaaaaa-bbbb-cccc-dddd-eeeeeeeeeeee") >>

MissingDir == ToolRoot \o << Unknown >>

ToolFiles ==
    { TreePath(GuidDir, Chars("pic_7.webp")),
      TreePath(GuidDir, Chars("pic_7.jpg")),
      TreePath(RustDir, Chars("diseases_cereals_") \o GuidText(RustGuid)
                        \o Chars("_01.webp")),
      TreePath(RustDir, Chars("diseases_cereals_g1_02.webp")),
      TreePath(RustDir, Chars("diseases_cereals_g1_03.jpg")),
      TreePath(RustDir, Chars("pic_02.WEBP")),
      TreePath(RustDir, Chars("pic_02.WebP")),
      TreePath(RustDir, Chars("photo.jpg")) }

ToolTrees ==
    { [p \in held |-> StoredImage(p)] :
        held \in { h \in SUBSET ToolFiles : Cardinality(h) <= MaxTreeFiles } }

\* the directories that exist with a tree
DirsOf(files) ==
    { SubSeq(ToolRoot, 1, n) : n \in 1..Len(ToolRoot) } \cup { p.dir : p \in DOMAIN files }

RenameProbes ==
    { [fn |-> "rename_file_according_to_pattern", done |-> FALSE, files |-> d,
       file_path |-> f, after |-> << >>, result |-> NoPath] :
      d \in ToolTrees, f \in ToolFiles }

DirectoryProbes(d, m) ==
    { [fn |-> "process_directory", done |-> FALSE, module |-> m, files |-> d,
       directory |-> dir, rename |-> flag, recursive |-> rec, listing |-> << >>,
       undecodable |-> u, after |-> << >>] :
      dir \in { ToolRoot, RustDir, MissingDir },
      flag \in BOOLEAN, rec \in IF m = "convert_webp" THEN { TRUE } ELSE BOOLEAN,
      u \in { { } } \cup { { p } : p \in DOMAIN d } }

RenameCall ==
    /\ probe.fn = "rename_file_according_to_pattern"
    /\ ~probe.done
    /\ LET res == RenameFileAccordingToPattern(probe.files, probe.file_path)
       IN  probe' = [probe EXCEPT !.done = TRUE, !.after = res.fs, !.result = res.result]
    /\ UNCHANGED << crawlVars, fetchVars, seedVars, batchVars >>

\* process_directory of convert_webp_to_jpg.py
ProcessDirectoryCall ==
    /\ probe.fn = "process_directory"
    /\ probe.module = "convert_webp_to_jpg"
    /\ ~probe.done
    /\ \E listing \in Listings(WebpFiles(probe.files, probe.directory, probe.recursive)) :
         probe' = [probe EXCEPT
                     !.done = TRUE,
                     !.listing = listing,
                     !.after = ProcessDirectory(probe.files, DirsOf(probe.files),
                                                probe.directory, probe.rename,
                                                probe.recursive, listing,
                                                probe.undecodable)]
    /\ UNCHANGED << crawlVars, fetchVars, seedVars, batchVars >>

\* process_directory of convert_webp.py
FixDirectoryCall ==
    /\ probe.fn = "process_directory"
    /\ probe.module = "convert_webp"
    /\ ~probe.done
    /\ \E listing \in Listings(FilesUnder(probe.files, probe.directory, TRUE)) :
         probe' = [probe EXCEPT
                     !.done = TRUE,
                     !.listing = listing,
                     !.after = FixDirectory(probe.files, listing, 1, probe.rename,
                                            probe.undecodable)]
    /\ UNCHANGED << crawlVars, fetchVars, seedVars, batchVars >>

ConvertProbes ==
    { [fn |-> "convert_webp_to_jpg", done |-> FALSE, module |-> m,
       files |-> d, file_path |-> f, delete_original |-> del,
       fault |-> flt, after |-> << >>, result |-> NoPath] :
      m \in ConverterModules, d \in ConverterDirs, f \in ConverterFiles,
      del \in BOOLEAN, flt \in ConverterFaults }

InitConvert ==
    /\ item = ItemRzhavchina
    /\ InitCrawl
    /\ call = NoCall
    /\ triples = << >>
    /\ seeds = << >>
    /\ \/ probe \in ConvertProbes
       \/ probe \in RenameProbes
       \/ \E d \in ToolTrees, m \in ConverterModules : probe \in DirectoryProbes(d, m)
    /\ batch = NoBatch

ConvertCall ==
    /\ probe.fn = "convert_webp_to_jpg"
    /\ ~probe.done
    /\ LET res == ConvertWebpToJpg(probe.module, probe.files, probe.file_path,
                                   probe.delete_original, probe.fault)
       IN  probe' = [probe EXCEPT !.done = TRUE, !.after = res.fs,
                                  !.result = res.result]
    /\ UNCHANGED << crawlVars, fetchVars, seedVars, batchVars >>

NextConvert == ConvertCall \/ RenameCall \/ ProcessDirectoryCall \/ FixDirectoryCall

SpecConvert == InitConvert /\ [][NextConvert]_vars

(***************************************************************************)
(* Properties of the converters (checked under SpecConvert).               *)
(***************************************************************************)
\* a call that converts: the file is there, its name is accepted, nothing
\* fails, and the original is to be deleted (the default)
Converts ==
    /\ probe.fn = "convert_webp_to_jpg"
    /\ probe.done
    /\ probe.fault = "none"
    /\ probe.delete_original
    /\ probe.file_path \in DOMAIN probe.files
    /\ ExtLower(probe.file_path.ext) = ".webp"

\* C21: the converter preserves identity and touches nothing else.
\* Converting X.webp, in any letter case of the extension, puts the converted
\* image at X.jpg, removes X.webp, and leaves every other file of the
\* directory, a pre-existing X.jpg included, present and unchanged.
C21_ConverterFrame ==
    Converts =>
      LET x_jpg == [probe.file_path EXCEPT !.ext = ".jpg"]
      IN  /\ probe.result = x_jpg
          /\ x_jpg \in DOMAIN probe.after
          /\ probe.file_path \notin DOMAIN probe.after
          /\ \A p \in DOMAIN probe.files \ { probe.file_path } :
               p \in DOMAIN probe.after /\ probe.after[p] = probe.files[p]
          /\ ( x_jpg \notin DOMAIN probe.files
                 => probe.after[x_jpg] = Converted(probe.files[probe.file_path]) )

\* C28: the converter's result exists.  Whenever convert_webp_to_jpg of
\* convert_webp_to_jpg.py returns a path, a file exists at that path after
\* the call, and the image is still held: by the original, or by a converted
\* file at another path.
C28_ResultExists ==
    ( /\ probe.fn = "convert_webp_to_jpg"
      /\ probe.done
      /\ probe.module = "convert_webp_to_jpg"
      /\ probe.result # NoPath )
    => /\ probe.result \in DOMAIN probe.after
       /\ \E p \in DOMAIN probe.after :
            /\ probe.after[p].image = probe.files[probe.file_path].image
            /\ probe.after[p].format \in { "WEBP", "JPEG" }
       /\ ( probe.file_path \notin DOMAIN probe.after
              => /\ probe.result # probe.file_path
                 /\ probe.after[probe.result] = Converted(probe.files[probe.file_path]) )

(***************************************************************************)
(* Properties of the search rounds and the download loop of                *)
(* process_risk_item (checked under Spec).                                 *)
(***************************************************************************)
\* the requests the primary round sends: one per source asked
PrimaryRequests == IF search_engine = "both" THEN 2 ELSE 1

\* '<name> <crop> фото'
ShorterQuery == << Strip(Get(item, "name")), culture_ru, WordFoto >>

\* what holds of the search rounds in every state of an invocation
SearchRounds ==
    /\ Len(requests) <= PrimaryRequests + 1
    /\ \A k \in 1..Len(requests) :
         IF k <= PrimaryRequests
         THEN requests[k].query # ShorterQuery
         ELSE /\ requests[k].query = ShorterQuery
              /\ requests[k].engine = IF search_engine = "yandex" THEN "yandex"
                                      ELSE "google"
    \* the primary round found nothing: the second round is next
    /\ ( Len(requests) = PrimaryRequests /\ image_urls = << >> ) => pc = "alt"
    \* the record is given up only after the second round found nothing
    /\ outcome = "no_urls" => ( Len(requests) = PrimaryRequests + 1 /\ image_urls = << >> )
    \* the loop runs over URLs that were found
    /\ pc \in { "loop", "sleep" } => image_urls # << >>
    /\ pc = "alt" => Len(requests) = PrimaryRequests

\* the second round is entered only from a primary round that found nothing
SecondRoundStep ==
    Len(requests') > PrimaryRequests
      => \/ Len(requests) > PrimaryRequests /\ requests' = requests
         \/ Len(requests) = PrimaryRequests /\ image_urls = << >>

\* C22: single degraded retry.  A second search round is issued if and only
\* if the primary query returned no URLs; it uses the shorter query
\* '<name> <crop> фото', happens at most once, and the record is given up only
\* after the second round also returned nothing.
C22_SingleRetry == [] SearchRounds /\ [][SecondRoundStep]_vars

C22_Witness ==
    /\ pc = "done"
    /\ outcome = "finished"
    /\ search_engine = "yandex"
    /\ Len(requests) = 2
    /\ requests[2] = [engine |-> "yandex", query |-> ShorterQuery]
    /\ downloads_count = 1

(***************************************************************************)
(* The merge of the two sources alone: the 'both' branch of                *)
(* process_risk_item on two result pages.                                  *)
(***************************************************************************)
MaxMergeCap == 6   \* max_images ranges over 1..MaxMergeCap in the merge

MergeCaps == 1..MaxMergeCap

InitMerge ==
    /\ item = ItemRzhavchina
    /\ InitCrawl
    /\ call = NoCall
    /\ triples = << >>
    /\ seeds = << >>
    /\ probe \in { [fn |-> "merge", done |-> FALSE, max_images |-> cap,
                    page_y |-> py, page_g |-> pg,
                    yandex_urls |-> GetYandexImageUrls(py, HalfCap(cap)),
                    google_urls |-> GetGoogleImageUrls(pg, HalfCap(cap)),
                    image_urls |-> << >>] :
                   cap \in MergeCaps, py \in Pages, pg \in Pages }
    /\ batch = NoBatch

MergeCall ==
    /\ probe.fn = "merge"
    /\ ~probe.done
    /\ probe' = [probe EXCEPT !.done = TRUE,
                              !.image_urls = BothUrls(probe.page_y, probe.page_g,
                                                      probe.max_images)]
    /\ UNCHANGED << crawlVars, fetchVars, seedVars, batchVars >>

NextMerge == MergeCall

SpecMerge == InitMerge /\ [][NextMerge]_vars

(***************************************************************************)
(* Properties of the merge (checked under SpecMerge).                      *)
(***************************************************************************)
\* the number of rounds in which both sources still have a URL
PairedRounds ==
    IF Len(probe.yandex_urls) < Len(probe.google_urls)
    THEN Len(probe.yandex_urls) ELSE Len(probe.google_urls)

\* the candidates alternate, first source first, while both sources last
Alternates ==
    \A k \in 1..Len(probe.image_urls) :
      k <= 2 * PairedRounds =>
        probe.image_urls[k] = IF k % 2 = 1 THEN probe.yandex_urls[(k + 1) \div 2]
                              ELSE probe.google_urls[k \div 2]

\* C23 as stated: round-robin merge.  The candidates alternate between the
\* two sources in their original order, the alternation stops as soon as
\* one source is exhausted or the list holds max_images URLs, and the list
\* never holds more than max_images URLs.
C23_RoundRobinAsStated ==
    probe.done =>
      /\ Alternates
      /\ Len(probe.image_urls) <= probe.max_images
      /\ Len(probe.image_urls) <= 2 * PairedRounds + 1

\* C23: round-robin merge.  The candidates alternate between the two sources
\* in their original order while both last; once one source is exhausted the
\* remaining URLs of the other follow in their order; the list is cut to
\* max_images URLs and never holds more.
C23_RoundRobin ==
    probe.done =>
      LET longer == IF Len(probe.yandex_urls) < Len(probe.google_urls)
                    THEN probe.google_urls ELSE probe.yandex_urls
          total == Len(probe.yandex_urls) + Len(probe.google_urls)
      IN  /\ Alternates
          /\ Len(probe.image_urls) <= probe.max_images
          /\ Len(probe.image_urls) =
               IF total < probe.max_images THEN total ELSE probe.max_images
          /\ \A k \in 1..Len(probe.image_urls) :
               k > 2 * PairedRounds => probe.image_urls[k] = longer[k - PairedRounds]

C23_Witness ==
    /\ probe.done
    /\ Len(probe.yandex_urls) = 3
    /\ Len(probe.google_urls) = 1
    /\ probe.image_urls = << probe.yandex_urls[1], probe.google_urls[1],
                             probe.yandex_urls[2], probe.yandex_urls[3] >>

\* a step in which download_image was called and returned False
FailedDownloadStep == attempts' = attempts + 1 /\ downloads_count' = downloads_count

\* a file that a download of the current invocation wrote in full
DownloadedInRun(p) ==
    /\ fs[p].state = "full"
    /\ ( p \notin DOMAIN fs0 \/ fs0[p] # fs[p] )

\* what holds of the loop in every state of an invocation
LoopInv ==
    /\ pc = "sleep" => idx < Len(image_urls)
    /\ pc = "loop" => idx <= Len(image_urls)
    \* the loop is left only with the candidates used up or at the cap
    /\ ( pc = "done" /\ outcome = "finished" )
         => \/ idx >= Len(image_urls)
            \/ existing + downloads_count >= max_images

\* what holds of every step of the loop
LoopStep ==
    \* a failed download goes on to the pause, and the pause to the next candidate
    /\ FailedDownloadStep
         => /\ pc' = "sleep" /\ outcome' = outcome
            /\ idx' = idx /\ image_urls' = image_urls
    /\ pc = "sleep" => ( pc' = "loop" /\ idx' = idx + 1 /\ image_urls' = image_urls )
    \* the files the invocation downloaded stay as they were written
    /\ pc \in { "loop", "sleep" }
         => \A p \in DOMAIN fs :
              DownloadedInRun(p) => ( p \in DOMAIN fs' /\ fs'[p] = fs[p] )

\* C24: per-URL failures are non-fatal.  A download of candidate i that
\* fails or is rejected never ends the loop: the run goes on to candidate
\* i+1 unless the cap is reached, and the files downloaded before the failure
\* stay on disk as written.
C24_FailuresNonFatal == [] LoopInv /\ [][LoopStep]_vars

C24_Witness ==
    /\ pc = "done"
    /\ outcome = "finished"
    /\ fs0 = << >>
    /\ max_images = 3
    /\ Len(image_urls) = 3
    /\ attempts = 3
    /\ downloads_count = 2
    /\ { p.number : p \in DOMAIN fs } = { 1, 3 }
    /\ \A p \in DOMAIN fs : fs[p].state = "full"

(***************************************************************************)
(* An invocation whose calls all return: the steps of process_risk_item    *)
(* are taken one after the other until it returns.                         *)
(***************************************************************************)
Step == Search \/ AltSearch \/ Skip \/ Download \/ Sleep \/ Finish

SpecLive == Init /\ [][Next]_vars /\ WF_vars(Step)

\* SATISFIED: existing plus newly downloaded images is at least the cap
Satisfied == existing + downloads_count >= max_images

\* EXHAUSTED: every candidate was gone through and the cap was not reached
Exhausted == idx >= Len(image_urls) /\ existing + downloads_count < max_images

Running == pc \in { "search", "alt", "loop", "sleep" }

\* what holds of the work done in every state of an invocation
TerminalInv ==
    \* at most two search rounds
    /\ Len(requests) <= PrimaryRequests + 1
    \* at most one call of download_image per candidate
    /\ attempts <= Len(image_urls)
    /\ attempts <= IF pc = "sleep" THEN idx + 1 ELSE idx
    \* one of the two outcomes, never both
    /\ pc = "done" => ( Satisfied \/ Exhausted ) /\ ~( Satisfied /\ Exhausted )
    \* the downloads made are kept: each is a full file of the directory
    /\ pc = "done" =>
         Cardinality({ p \in DOMAIN fs : DownloadedInRun(p) }) = downloads_count

\* C25: terminal outcome.  An invocation whose network calls all return
\* terminates, after at most two search rounds and at most one download
\* attempt per candidate URL, in exactly one of SATISFIED and EXHAUSTED, and
\* keeps the downloads it made.
C25_TerminalOutcome == [] TerminalInv /\ ( Running ~> pc = "done" )

C25_Witness ==
    /\ pc = "done"
    /\ Exhausted
    /\ max_images = 3
    /\ Len(requests) = 2
    /\ Len(image_urls) = 2
    /\ attempts = 2
    /\ downloads_count = 1
    /\ Cardinality(DOMAIN fs) = 1

(***************************************************************************)
(* process_csv_file driving process_risk_item: the rows of one table are   *)
(* processed one after the other with the file's engine and cap.           *)
(***************************************************************************)
MaxCsvRows == 2   \* a table holds 1..MaxCsvRows rows

\* rows of one table: the same risk, and rows without a name
CsvItems == { ItemRzhavchina, ItemNoName, ItemNoNameColumn }

CsvTables == UNION { [1..n -> CsvItems] : n \in 1..MaxCsvRows }

InitCsv ==
    /\ InitCrawl
    /\ call = NoCall
    /\ triples = << >>
    /\ seeds = << >>
    /\ probe = NoProbe
    /\ batch \in { [rows |-> t, done |-> FALSE, i |-> 0, successful_items |-> 0,
                    sleeps |-> 0, search_engine |-> e, max_images |-> c] :
                   t \in CsvTables, e \in Engines, c \in Caps }
    /\ item = batch.rows[1]

\* process_risk_item is called for the row at hand
RowStart ==
    /\ ~batch.done
    /\ batch.i < Len(batch.rows)
    /\ Start
    /\ search_engine' = batch.search_engine
    /\ max_images' = batch.max_images

\* the steps of the invocation
RowStep == Search \/ AltSearch \/ Skip \/ Download \/ Sleep \/ Finish

\* process_risk_item has returned: the item is counted, the pause between
\* the items is held, and the loop takes the next row
RowPause ==
    /\ pc = "done"
    /\ ~batch.done
    /\ batch' = [batch EXCEPT !.i = @ + 1, !.successful_items = @ + 1,
                              !.sleeps = @ + 1]
    /\ item' = IF batch.i + 1 < Len(batch.rows) THEN batch.rows[batch.i + 2] ELSE item
    /\ pc' = "idle"
    /\ search_engine' = "google"
    /\ max_images' = 1
    /\ risk_name_en' = << >>
    /\ risk_dir' = NoDir
    /\ existing' = 0
    /\ image_urls' = << >>
    /\ idx' = 0
    /\ downloads_count' = 0
    /\ requests' = << >>
    /\ attempts' = 0
    /\ sleeps' = 0
    /\ plentiful' = TRUE
    /\ valid_run' = TRUE
    /\ jpeg_run' = TRUE
    /\ fs0' = fs
    /\ listed' = TRUE
    /\ outcome' = "none"
    /\ UNCHANGED << listings, used, culture_ru, culture_en, risk_type, fs, made,
                    fetchVars, seedVars, probeVars >>

\* the rows are used up: the summary is logged and process_csv_file returns
CsvEnd ==
    /\ pc = "idle"
    /\ ~batch.done
    /\ batch.i = Len(batch.rows)
    /\ batch' = [batch EXCEPT !.done = TRUE]
    /\ UNCHANGED << crawlVars, fetchVars, seedVars, probeVars >>

NextCsv == RowStart \/ RowStep \/ RowPause \/ CsvEnd

SpecCsv == InitCsv /\ [][NextCsv]_vars

(***************************************************************************)
(* Properties of the pauses (checked under SpecCsv).                       *)
(***************************************************************************)
\* every call of download_image made so far was followed by its pause, the
\* one just made excepted; every record finished was followed by its pause
PausesHeld ==
    /\ attempts = sleeps + ( IF pc = "sleep" THEN 1 ELSE 0 )
    /\ batch.sleeps = batch.i
    /\ pc # "idle" => batch.i < Len(batch.rows)

\* a call of download_image, and the start of a record, come after the pause
\* of the one before
PausedStep ==
    /\ attempts' = attempts + 1 => ( attempts = sleeps /\ pc' = "sleep" )
    /\ ( pc = "idle" /\ pc' # "idle" ) => batch.sleeps = batch.i
    /\ ( pc = "done" /\ pc' = "idle" ) => batch'.sleeps = batch.sleeps + 1

\* C26: rate limiting order.  Within one record there is a delay step
\* between any two consecutive calls of download_image, and in
\* process_csv_file there is a delay step between the end of one record and
\* the start of the next; no two download attempts happen back to back.
C26_RateLimit == [] PausesHeld /\ [][PausedStep]_vars

C26_Witness ==
    /\ batch.i = 1
    /\ batch.sleeps = 1
    /\ pc = "sleep"
    /\ attempts = 2
    /\ sleeps = 1
    /\ used = 3

(***************************************************************************)
(* A further property of the orchestrator (checked under Spec).            *)
(***************************************************************************)
\* C27: the directory never exceeds the cap.  A run that starts on a
\* directory of at most max_images entries, and lists it, ends with at most
\* max_images entries in it, whatever the fetch outcomes.
C27_DirectoryWithinCap ==
    ( /\ pc = "done"
      /\ listed
      /\ risk_dir # NoDir
      /\ Cardinality(DOMAIN fs0) <= max_images )
    => Cardinality(DOMAIN fs) <= max_images

(***************************************************************************)
(* Dataset preparation (DatasetPreparationUtils.py): the classes are       *)
(* collected from the image tree and saved, the images of every class are  *)
(* split, and the images of the splits are copied and labelled.            *)
(***************************************************************************)
MaxDirs == 2      \* the image tree holds 0..MaxDirs risk directories
MaxImages == 2    \* a risk directory holds 0..MaxImages images

TrainPercent == 70   \* train_ratio = 0.7
ValPercent == 15     \* val_ratio = 0.15

\* for risk_type in ['diseases', 'pests']
DatasetRiskTypes == << Diseases, Pests >>

DatasetCultures == { << "s" >>, << "s", "_", "b" >> }

DatasetRiskNames == { << "r" >>, << "b", "_", "r" >> }

ImageDir(rt, culture, risk_name) ==
    [risk_type |-> rt, culture |-> culture, risk_name |-> risk_name]

ImageDirs ==
    { ImageDir(DatasetRiskTypes[t], c, r) :
        t \in 1..Len(DatasetRiskTypes), c \in DatasetCultures, r \in DatasetRiskNames }

RiskTypeRank(rt) == CHOOSE t \in 1..Len(DatasetRiskTypes) : DatasetRiskTypes[t] = rt

\* the order in which the nested loops of collect_classes meet the
\* directories: by risk type, the directories of one culture together
WalkOrder(t) ==
    /\ \A i, j \in 1..Len(t) : i < j => t[i].dir # t[j].dir
    /\ \A i, j \in 1..Len(t) :
         i < j => RiskTypeRank(t[i].dir.risk_type) <= RiskTypeRank(t[j].dir.risk_type)
    /\ \A i, j, k \in 1..Len(t) :
         ( /\ i < j /\ j < k
           /\ t[i].dir.risk_type = t[k].dir.risk_type
           /\ t[i].dir.culture = t[k].dir.culture )
         => t[j].dir.culture = t[i].dir.culture

\* the image tree: its risk directories in walk order, each with the number
\* of images it holds
Trees ==
    { t \in UNION { [1..n -> [dir : ImageDirs, images : 0..MaxImages]] : n \in 0..MaxDirs } :
        WalkOrder(t) }

\* class_name = f"{risk_type}_{culture_dir.name}_{risk_dir.name}"
ClassName(dir) == JoinUnderscore(dir.risk_type, dir.culture, dir.risk_name)

CollectClasses(tree) == [k \in 1..Len(tree) |-> ClassName(tree[k].dir)]

\* save_classes writes one class per line; load_classes strips each line
LoadClasses(saved) == [k \in 1..Len(saved) |-> Strip(saved[k])]

NoImageDir == ImageDir(<< >>, << >>, << >>)

\* split_dataset: parts = class_name.split('_'); the directory named by
\* parts[0], parts[1] and '_'.join(parts[2:])
SplitClassName(class_name) ==
    LET parts == SplitUnderscore(class_name)
    IN  IF Len(parts) < 3 THEN NoImageDir
        ELSE ImageDir(parts[1], parts[2], JoinSegments(SubSeq(parts, 3, Len(parts))))

DirExists(tree, dir) == \E k \in 1..Len(tree) : tree[k].dir = dir

\* the names of the image files of a directory
FileLetters == << "x", "y", "z", "u" >>

FileName(file) == << FileLetters[file], ".", "j", "p", "g" >>

\* the images the globs of split_dataset list in a directory
ImagesIn(tree, dir) ==
    LET k == CHOOSE k \in 1..Len(tree) : tree[k].dir = dir
    IN  [file \in 1..tree[k].images |-> [dir |-> dir, file |-> file]]

ShuffleOrders(n) ==
    { f \in [1..n -> 1..n] : \A i, j \in 1..n : f[i] = f[j] => i = j }

\* random.shuffle(images) with the outcome `order`
Shuffled(images, order) == [i \in 1..Len(images) |-> images[order[i]]]

\* the largest power of two that is at most m, from the power p on
RECURSIVE PowerOfTwoBelow(_, _)
PowerOfTwoBelow(m, p) == IF 2 * p > m THEN p ELSE PowerOfTwoBelow(m, 2 * p)

\* n_train = int(len(images) * train_ratio) with train_ratio = 0.7, computed
\* in binary floating point (IEEE 754 double, round to nearest even).  The
\* double 0.7 is 0.7 - 0.4 / 2^53, so the exact product is 7n/10 - 0.4 n /
\* 2^53.  When 7n/10 is no integer the truncation is that of the exact
\* quotient.  When n = 10k the exact product is 7k - k / 2^51; with
\* 2^p <= 7k < 2^(p+1) the doubles below 7k are 2^(p-52) apart, so the product
\* rounds to 7k when k / 2^51 <= 2^(p-53), that is 4k <= 2^p, and to the
\* double below 7k, truncated to 7k - 1, otherwise (n = 90 gives 62).
TrainCount(n) ==
    IF n = 0 \/ n % 10 # 0 THEN (n * TrainPercent) \div 100
    ELSE LET k == n \div 10
             exact == (n * TrainPercent) \div 100
         IN  IF 4 * k <= PowerOfTwoBelow(exact, 1) THEN exact ELSE exact - 1

\* n_val = int(len(images) * val_ratio) with val_ratio = 0.15: the double
\* 0.15 is 0.15 - 0.2 / 2^55; for n = 20k the exact product 3k - k / 2^53 is
\* within half a step (2^(p-53) with 2^p <= 3k, and k < 2^p) of 3k and rounds
\* to it, so the truncation is always that of the exact quotient
ValCount(n) == (n * ValPercent) \div 100

SplitNames == { "train", "val", "test" }

NoSplits == [s \in SplitNames |-> << >>]

\* the images of one class, shuffled, added to the three splits
ExtendSplits(splits, images) ==
    LET n == Len(images)
        n_train == TrainCount(n)
        n_val == ValCount(n)
    IN  [s \in SplitNames |->
           splits[s] \o ( IF s = "train" THEN SubSeq(images, 1, n_train)
                          ELSE IF s = "val" THEN SubSeq(images, n_train + 1, n_train + n_val)
                          ELSE SubSeq(images, n_train + n_val + 1, n) )]

\* split_dataset: the classes in turn, from class k on
RECURSIVE SplitDataset(_, _, _, _, _)
SplitDataset(tree, classes, orders, k, splits) ==
    IF k > Len(classes) THEN splits
    ELSE LET images_dir == SplitClassName(classes[k])
             skip == \/ images_dir = NoImageDir
                     \/ ~DirExists(tree, images_dir)
             images == IF skip THEN << >> ELSE ImagesIn(tree, images_dir)
         IN  IF skip \/ images = << >>
             THEN SplitDataset(tree, classes, orders, k + 1, splits)
             ELSE SplitDataset(tree, classes, orders, k + 1,
                               ExtendSplits(splits, Shuffled(images, orders[k])))

\* the directory split_dataset looks into for each class
Resolved(tree, classes) ==
    [k \in 1..Len(classes) |->
       LET images_dir == SplitClassName(classes[k])
       IN  [dir |-> images_dir, found |-> DirExists(tree, images_dir)]]

\* copy_images_to_dataset: parts = img_path.parts; the class name built of
\* parts[-3], parts[-2] and parts[-1]
PathParts(image) ==
    << image.dir.risk_type, image.dir.culture, image.dir.risk_name, FileName(image.file) >>

ClassNameOfImage(image) ==
    LET parts == PathParts(image)
        n == Len(parts)
    IN  JoinUnderscore(parts[n - 2], parts[n - 1], parts[n])

\* class_to_idx = {cls: idx for idx, cls in enumerate(classes)}
ClassToIdx(classes, class_name) ==
    ( CHOOSE k \in 1..Len(classes) :
        /\ classes[k] = class_name
        /\ \A j \in 1..Len(classes) : classes[j] = class_name => j <= k ) - 1

InClasses(classes, class_name) == \E k \in 1..Len(classes) : classes[k] = class_name

NoCopies == [images |-> { }, labels |-> << >>]

\* one image of a split: copied, and labelled when cv2.imread can read it
CopyImage(classes, dest, image, readable) ==
    LET class_name == ClassNameOfImage(image)
        name == FileName(image.file)
    IN  IF ~InClasses(classes, class_name) THEN dest
        ELSE IF ~readable THEN [dest EXCEPT !.images = @ \cup { name }]
        ELSE [images |-> dest.images \cup { name },
              labels |-> [f \in DOMAIN dest.labels \cup { name } |->
                            IF f = name THEN ClassToIdx(classes, class_name)
                            ELSE dest.labels[f]]]

\* the images of one split in turn, from image i on; `unreadable` holds the
\* images for which cv2.imread returns None
RECURSIVE CopyImages(_, _, _, _, _)
CopyImages(classes, images, unreadable, i, dest) ==
    IF i > Len(images) THEN dest
    ELSE CopyImages(classes, images, unreadable, i + 1,
                    CopyImage(classes, dest, images[i], images[i] \notin unreadable))

\* all image files of a tree
ImagesOf(tree) ==
    UNION { { [dir |-> tree[k].dir, file |-> f] : f \in 1..tree[k].images } :
            k \in 1..Len(tree) }

InitDataset ==
    /\ item = ItemRzhavchina
    /\ InitCrawl
    /\ call = NoCall
    /\ triples = << >>
    /\ seeds = << >>
    /\ \E t \in Trees :
         probe \in { [fn |-> "dataset", phase |-> "start", tree |-> t, unreadable |-> u,
                      saved |-> << >>, resolved |-> << >>, splits |-> NoSplits,
                      dataset |-> [s \in SplitNames |-> NoCopies]] :
                    u \in SUBSET ImagesOf(t) }
    /\ batch = NoBatch

\* classes = collect_classes(); save_classes(classes)
CollectStep ==
    /\ probe.fn = "dataset"
    /\ probe.phase = "start"
    /\ probe' = [probe EXCEPT !.phase = "collected",
                              !.saved = CollectClasses(probe.tree)]
    /\ UNCHANGED << crawlVars, fetchVars, seedVars, batchVars >>

\* dataset_splits = split_dataset()
SplitStep ==
    /\ probe.fn = "dataset"
    /\ probe.phase = "collected"
    /\ LET classes == LoadClasses(probe.saved)
       IN  \E orders \in [1..Len(classes) -> UNION { ShuffleOrders(n) : n \in 0..MaxImages }] :
             /\ \A k \in 1..Len(classes) :
                  LET d == SplitClassName(classes[k])
                  IN  orders[k] \in ShuffleOrders(IF DirExists(probe.tree, d)
                                                 THEN Len(ImagesIn(probe.tree, d)) ELSE 0)
             /\ probe' = [probe EXCEPT
                            !.phase = "split",
                            !.resolved = Resolved(probe.tree, classes),
                            !.splits = SplitDataset(probe.tree, classes, orders, 1, NoSplits)]
    /\ UNCHANGED << crawlVars, fetchVars, seedVars, batchVars >>

\* copy_images_to_dataset(dataset_splits)
CopyStep ==
    /\ probe.fn = "dataset"
    /\ probe.phase = "split"
    /\ LET classes == LoadClasses(probe.saved)
       IN  probe' = [probe EXCEPT
                       !.phase = "copied",
                       !.dataset = [s \in SplitNames |->
                                      CopyImages(classes, probe.splits[s], probe.unreadable,
                                                 1, NoCopies)]]
    /\ UNCHANGED << crawlVars, fetchVars, seedVars, batchVars >>

NextDataset == CollectStep \/ SplitStep \/ CopyStep

SpecDataset == InitDataset /\ [][NextDataset]_vars

(***************************************************************************)
(* Properties of the dataset preparation (checked under SpecDataset).      *)
(***************************************************************************)
\* C29: class-name round trip.  For every directory a class name was built
\* from, split_dataset splits the class name back into the same risk type,
\* culture and risk name and finds that directory.
C29_ClassRoundTrip ==
    probe.phase \in { "split", "copied" } =>
      \A k \in 1..Len(probe.tree) :
        /\ probe.resolved[k].dir = probe.tree[k].dir
        /\ probe.resolved[k].found

\* C30: every split image is copied and labelled.  Every image of a split is
\* in that split's images directory after the copy, with one label whose
\* class index is the index of the class of the directory it came from.
C30_CopiedAndLabelled ==
    probe.phase = "copied" =>
      \A s \in SplitNames :
        \A i \in 1..Len(probe.splits[s]) :
          LET image == probe.splits[s][i]
              name == FileName(image.file)
          IN  /\ name \in probe.dataset[s].images
              /\ name \in DOMAIN probe.dataset[s].labels
              /\ \E k \in 1..Len(probe.tree) :
                   /\ probe.tree[k].dir = image.dir
                   /\ probe.dataset[s].labels[name] = k - 1

====
